---- MODULE Spec2Model ----
(***************************************************************************)
(* Verification model of the LAB 104 containers.                           *)
(*                                                                         *)
(* Part 1: avl_tree<Key, Info> (LAB_104_task3, avl_tree.hpp).              *)
(* A tree is a value: nullptr, or a node record with the fields of         *)
(* struct node (key, info, left, right, height).  The private node*        *)
(* functions are operators with the source's names; the public methods     *)
(* are the actions.  A pointer into the tree (the node* returned by find,  *)
(* the Info& returned by operator[]) is the path from the root.            *)
(*                                                                         *)
(* Specifications:                                                         *)
(*   Spec        one tree, every public method                             *)
(*   SpecCopy    two trees as values: copy construction and operator=      *)
(*   SpecHeap    two trees whose nodes are cells of one explicit heap      *)
(*               (the *_in operators): ownership, new and delete           *)
(*   SpecSelect  one tree and maxinfo_selector                             *)
(*   SpecWords   count_words on a stream of characters                     *)
(*   SpecRun     the runs of the rotation and stress tests, call by call   *)
(*   SpecNode    the private node functions (rebalance, the rotations,     *)
(*               insert, remove, to_vector), each called on every subtree  *)
(*               of a bounded size that it can be handed                   *)
(*                                                                         *)
(* Part 2: Sequence<Key, Info> (LAB_104_task1, sequence.hpp) and the       *)
(* functions split_pos and split_key (split.hpp).  A Sequence is the       *)
(* sequence of its nodes from head; a Node* is an index into it, 0 for     *)
(* nullptr.                                                                *)
(*                                                                         *)
(*   SpecSeq     three Sequences: push_back, insert_at, split_pos and      *)
(*               split_key                                                 *)
(*                                                                         *)
(* Part 3: bi_ring<Key, Info> (LAB_104_task2, bi_ring.hpp).  A ring is a   *)
(* record of its cells (the nodes, with next and prev as cell indices),    *)
(* the pointer any and the version counter; an iterator is a node and a    *)
(* version.  A dereference of a null Node* sets crashed.                   *)
(*                                                                         *)
(*   SpecJoin    two rings and the functions join and shuffle              *)
(*   SpecRing    one ring and an iterator: push_front, push_back,          *)
(*               pop_front, pop_back, insert and erase                     *)
(***************************************************************************)
EXTENDS Integers, Sequences, FiniteSets, TLC

\* ---------------------------------------------------------------- bounds
\* Keys are 1..MaxKey, infos are 0..MaxInfo.
MaxKey == 5
MaxInfo == 1
\* In the two-tree specification keys are 1..MaxCopyKey.
MaxCopyKey == 3

Keys == 1..MaxKey
Infos == 0..MaxInfo

\* Info{} : the value-initialised Info (int: 0)
DefaultInfo == 0

\* ------------------------------------------------------------ struct node
nullptr == [null |-> TRUE]

\* node(const Key& k, const Info& i): left(nullptr), right(nullptr), height(1)
node(k, i) == [key |-> k, info |-> i, left |-> nullptr, right |-> nullptr, height |-> 1]

max(a, b) == IF a < b THEN b ELSE a

\* int height(node* n) const
height(n) == IF n # nullptr THEN n.height ELSE 0

\* update_height without the 1 + for the node itself
update_height_no_increment(n) ==
    [n EXCEPT !.height = max(height(n.left), height(n.right))]

\* update_height with 2 + for the node itself
update_height_two_more(n) ==
    [n EXCEPT !.height = 2 + max(height(n.left), height(n.right))]

\* void update_height(node* n)
update_height(n) == [n EXCEPT !.height = 1 + max(height(n.left), height(n.right))]

\* int balance_factor(node* n) const
balance_factor(n) == height(n.left) - height(n.right)

\* rotate_right taking the outer grandchild for T2 (node* T2 = x->left)
rotate_right_outer_T2(y) ==
    LET x  == y.left
        T2 == x.left
        y1 == update_height([y EXCEPT !.left = T2])
    IN  update_height([x EXCEPT !.right = y1])

\* rotate_right with the two update_height calls in the other order
rotate_right_x_first(y) ==
    LET x  == y.left
        T2 == x.right
        y1 == [y EXCEPT !.left = T2]
        x1 == update_height([x EXCEPT !.right = y1])
    IN  [x1 EXCEPT !.right = update_height(y1)]

\* node* rotate_right(node* y)
rotate_right(y) ==
    LET x  == y.left
        T2 == x.right
        y1 == update_height([y EXCEPT !.left = T2])
    IN  update_height([x EXCEPT !.right = y1])

\* rotate_left without x->right = T2
rotate_left_keeps_right(x) ==
    LET y  == x.right
        x1 == update_height(x)
    IN  update_height([y EXCEPT !.left = x1])

\* node* rotate_left(node* x)
rotate_left(x) ==
    LET y  == x.right
        T2 == y.left
        x1 == update_height([x EXCEPT !.right = T2])
    IN  update_height([y EXCEPT !.left = x1])

\* rebalance without the two double-rotation cases
rebalance_single_only(n0) ==
    LET n       == update_height(n0)
        balance == balance_factor(n)
    IN  IF balance > 1 THEN rotate_right(n)
        ELSE IF balance < -1 THEN rotate_left(n)
        ELSE n

\* rebalance rotating as soon as the subtree heights differ at all
rebalance_eager(n0) ==
    LET n       == update_height(n0)
        balance == balance_factor(n)
    IN  IF balance > 0 /\ balance_factor(n.left) >= 0
          THEN rotate_right(n)
        ELSE IF balance < 0 /\ balance_factor(n.right) <= 0
          THEN rotate_left(n)
        ELSE IF balance > 0 /\ balance_factor(n.left) < 0
          THEN rotate_right([n EXCEPT !.left = rotate_left(n.left)])
        ELSE IF balance < 0 /\ balance_factor(n.right) > 0
          THEN rotate_left([n EXCEPT !.right = rotate_right(n.right)])
        ELSE n

\* rebalance with > 0 and < 0 for >= 0 and <= 0: no single rotation when
\* the taller child is itself level
rebalance_level_child_skipped(n0) ==
    LET n       == update_height(n0)
        balance == balance_factor(n)
    IN  IF balance > 1 /\ balance_factor(n.left) > 0
          THEN rotate_right(n)
        ELSE IF balance < -1 /\ balance_factor(n.right) < 0
          THEN rotate_left(n)
        ELSE IF balance > 1 /\ balance_factor(n.left) < 0
          THEN rotate_right([n EXCEPT !.left = rotate_left(n.left)])
        ELSE IF balance < -1 /\ balance_factor(n.right) > 0
          THEN rotate_left([n EXCEPT !.right = rotate_right(n.right)])
        ELSE n

\* rebalance without the update_height(n) it starts with
rebalance_height_kept(n0) ==
    LET n       == n0
        balance == balance_factor(n)
    IN  IF balance > 1 /\ balance_factor(n.left) >= 0
          THEN rotate_right(n)
        ELSE IF balance < -1 /\ balance_factor(n.right) <= 0
          THEN rotate_left(n)
        ELSE IF balance > 1 /\ balance_factor(n.left) < 0
          THEN rotate_right([n EXCEPT !.left = rotate_left(n.left)])
        ELSE IF balance < -1 /\ balance_factor(n.right) > 0
          THEN rotate_left([n EXCEPT !.right = rotate_right(n.right)])
        ELSE n

\* node* rebalance(node* n)
rebalance(n0) ==
    LET n       == update_height(n0)
        balance == balance_factor(n)
    IN  IF balance > 1 /\ balance_factor(n.left) >= 0
          THEN rotate_right(n)
        ELSE IF balance < -1 /\ balance_factor(n.right) <= 0
          THEN rotate_left(n)
        ELSE IF balance > 1 /\ balance_factor(n.left) < 0
          THEN rotate_right([n EXCEPT !.left = rotate_left(n.left)])
        ELSE IF balance < -1 /\ balance_factor(n.right) > 0
          THEN rotate_left([n EXCEPT !.right = rotate_right(n.right)])
        ELSE n

\* node* min_node(node* n) const
RECURSIVE min_node(_)
min_node(n) == IF n.left # nullptr THEN min_node(n.left) ELSE n

\* insert leaving the info of an existing key as it is
RECURSIVE insert_no_update(_, _, _)
insert_no_update(n, key, info) ==
    IF n = nullptr THEN node(key, info)
    ELSE IF key < n.key
      THEN rebalance([n EXCEPT !.left = insert_no_update(n.left, key, info)])
    ELSE IF key > n.key
      THEN rebalance([n EXCEPT !.right = insert_no_update(n.right, key, info)])
    ELSE n

\* insert giving the node of an existing key the height of a new node
RECURSIVE insert_update_resets_height(_, _, _)
insert_update_resets_height(n, key, info) ==
    IF n = nullptr THEN node(key, info)
    ELSE IF key < n.key
      THEN rebalance([n EXCEPT !.left = insert_update_resets_height(n.left, key, info)])
    ELSE IF key > n.key
      THEN rebalance([n EXCEPT !.right = insert_update_resets_height(n.right, key, info)])
    ELSE [n EXCEPT !.info = info, !.height = 1]

\* node* insert(node* n, const Key& key, const Info& info)
RECURSIVE insert(_, _, _)
insert(n, key, info) ==
    IF n = nullptr THEN node(key, info)
    ELSE IF key < n.key
      THEN rebalance([n EXCEPT !.left = insert(n.left, key, info)])
    ELSE IF key > n.key
      THEN rebalance([n EXCEPT !.right = insert(n.right, key, info)])
    ELSE [n EXCEPT !.info = info]

\* remove copying only the successor's key, not its info
RECURSIVE remove_keeps_info(_, _)
remove_keeps_info(n, key) ==
    IF n = nullptr THEN n
    ELSE IF key < n.key
      THEN rebalance([n EXCEPT !.left = remove_keeps_info(n.left, key)])
    ELSE IF key > n.key
      THEN rebalance([n EXCEPT !.right = remove_keeps_info(n.right, key)])
    ELSE IF n.left = nullptr \/ n.right = nullptr
      THEN LET temp == IF n.left # nullptr THEN n.left ELSE n.right
           IN  IF temp = nullptr THEN nullptr ELSE rebalance(temp)
    ELSE LET temp == min_node(n.right)
         IN  rebalance([n EXCEPT !.key   = temp.key,
                                 !.right = remove_keeps_info(n.right, temp.key)])

\* remove dropping the only child together with the removed node
RECURSIVE remove_drops_child(_, _)
remove_drops_child(n, key) ==
    IF n = nullptr THEN n
    ELSE IF key < n.key
      THEN rebalance([n EXCEPT !.left = remove_drops_child(n.left, key)])
    ELSE IF key > n.key
      THEN rebalance([n EXCEPT !.right = remove_drops_child(n.right, key)])
    ELSE IF n.left = nullptr \/ n.right = nullptr
      THEN nullptr
    ELSE LET temp == min_node(n.right)
         IN  rebalance([n EXCEPT !.key   = temp.key,
                                 !.info  = temp.info,
                                 !.right = remove_drops_child(n.right, temp.key)])

\* remove leaving the successor in the right subtree
RECURSIVE remove_successor_kept(_, _)
remove_successor_kept(n, key) ==
    IF n = nullptr THEN n
    ELSE IF key < n.key
      THEN rebalance([n EXCEPT !.left = remove_successor_kept(n.left, key)])
    ELSE IF key > n.key
      THEN rebalance([n EXCEPT !.right = remove_successor_kept(n.right, key)])
    ELSE IF n.left = nullptr \/ n.right = nullptr
      THEN LET temp == IF n.left # nullptr THEN n.left ELSE n.right
           IN  IF temp = nullptr THEN nullptr ELSE rebalance(temp)
    ELSE LET temp == min_node(n.right)
         IN  rebalance([n EXCEPT !.key   = temp.key,
                                 !.info  = temp.info])

\* node* remove(node* n, const Key& key)
RECURSIVE remove(_, _)
remove(n, key) ==
    IF n = nullptr THEN n
    ELSE IF key < n.key
      THEN rebalance([n EXCEPT !.left = remove(n.left, key)])
    ELSE IF key > n.key
      THEN rebalance([n EXCEPT !.right = remove(n.right, key)])
    ELSE IF n.left = nullptr \/ n.right = nullptr
      THEN LET temp == IF n.left # nullptr THEN n.left ELSE n.right
           IN  IF temp = nullptr
                 THEN nullptr              \* n = nullptr; delete temp
                 ELSE rebalance(temp)      \* *n = *temp; delete temp
    ELSE LET temp == min_node(n.right)
         IN  rebalance([n EXCEPT !.key   = temp.key,
                                 !.info  = temp.info,
                                 !.right = remove(n.right, temp.key)])

\* The nodes rebalance is called with, in the order of the calls, while
\* insert(n, key, info) (call = "insert") or remove(n, key) (call =
\* "remove") runs: each is the node as the function has left it when it
\* reaches its return rebalance(n).
RECURSIVE rebalance_arguments(_, _, _, _)
rebalance_arguments(call, n, key, info) ==
    IF n = nullptr THEN <<>>
    ELSE IF key < n.key
      THEN Append(rebalance_arguments(call, n.left, key, info),
                  [n EXCEPT !.left = IF call = "insert" THEN insert(n.left, key, info)
                                                        ELSE remove(n.left, key)])
    ELSE IF key > n.key
      THEN Append(rebalance_arguments(call, n.right, key, info),
                  [n EXCEPT !.right = IF call = "insert" THEN insert(n.right, key, info)
                                                         ELSE remove(n.right, key)])
    ELSE IF call = "insert"
      THEN <<>>                            \* n->info = info; return n;
    ELSE IF n.left = nullptr \/ n.right = nullptr
      THEN LET temp == IF n.left # nullptr THEN n.left ELSE n.right
           IN  IF temp = nullptr THEN <<>> ELSE <<temp>>
    ELSE LET temp == min_node(n.right)
         IN  Append(rebalance_arguments(call, n.right, temp.key, info),
                    [n EXCEPT !.key   = temp.key,
                              !.info  = temp.info,
                              !.right = remove(n.right, temp.key)])

\* to_vector walking the left subtree into a vector of its own
RECURSIVE to_vector_left_fresh(_, _)
to_vector_left_fresh(n, vec) ==
    IF n # nullptr
      THEN to_vector_left_fresh(n.right,
                                Append(to_vector_left_fresh(n.left, <<>>), <<n.key, n.info>>))
      ELSE vec

\* void to_vector(node* n, std::vector<std::pair<Key, Info>>& vec) const
RECURSIVE to_vector(_, _)
to_vector(n, vec) ==
    IF n # nullptr
      THEN to_vector(n.right, Append(to_vector(n.left, vec), <<n.key, n.info>>))
      ELSE vec

\* clone leaving the height the node constructor set
RECURSIVE clone_height_one(_)
clone_height_one(n) ==
    IF n = nullptr THEN nullptr
    ELSE [node(n.key, n.info) EXCEPT !.left  = clone_height_one(n.left),
                                     !.right = clone_height_one(n.right)]

\* node* clone(node* n) const
RECURSIVE clone(_)
clone(n) ==
    IF n = nullptr THEN nullptr
    ELSE [node(n.key, n.info) EXCEPT !.left   = clone(n.left),
                                     !.right  = clone(n.right),
                                     !.height = n.height]

\* node* find(const Key& key) / const node* find(const Key& key) const
\* The returned node* is the path from the root: <<>> is the root itself,
\* NullPtr is the null pointer.
NullPtr == <<"null">>

RECURSIVE find_from(_, _, _)
find_from(current, path, key) ==
    IF current = nullptr THEN NullPtr
    ELSE IF key = current.key THEN path
    ELSE IF key < current.key
      THEN find_from(current.left, Append(path, "left"), key)
      ELSE find_from(current.right, Append(path, "right"), key)

find(r, key) == find_from(r, <<>>, key)

\* *p for a non-null node pointer p into the tree r
RECURSIVE deref(_, _)
deref(r, p) ==
    IF p = <<>> THEN r
    ELSE IF Head(p) = "left" THEN deref(r.left, Tail(p))
    ELSE deref(r.right, Tail(p))

\* p->info = v for a non-null node pointer p into the tree r
RECURSIVE store_info(_, _, _)
store_info(r, p, v) ==
    IF p = <<>> THEN [r EXCEPT !.info = v]
    ELSE IF Head(p) = "left" THEN [r EXCEPT !.left = store_info(r.left, Tail(p), v)]
    ELSE [r EXCEPT !.right = store_info(r.right, Tail(p), v)]

\* operator[] inserting the default info whether or not the key is there
index_mut_always_insert(r, key) ==
    LET r1 == insert(r, key, DefaultInfo)
    IN  [tree |-> r1, n |-> find(r1, key)]

\* Info& operator[](const Key& key): the tree after the call and the
\* node whose info the returned reference designates
index_mut(r, key) ==
    LET n == find(r, key)
    IN  IF n = NullPtr
          THEN LET r1 == insert(r, key, DefaultInfo)
               IN  [tree |-> r1, n |-> find(r1, key)]
          ELSE [tree |-> r, n |-> n]

\* const operator[] returning the dummy for every key
index_const_always_dummy(r, key) == DefaultInfo

\* const Info& operator[](const Key& key) const  (static Info dummy)
index_const(r, key) ==
    LET result == find(r, key)
    IN  IF result # NullPtr THEN deref(r, result).info ELSE DefaultInfo

\* search reporting a hit without writing the info
search_no_write(r, key, info) ==
    LET result == find(r, key)
    IN  [found |-> result # NullPtr, info |-> info]

\* bool search(const Key& key, Info& info) const: the returned flag and the
\* caller's info variable after the call
search(r, key, info) ==
    LET result == find(r, key)
    IN  IF result # NullPtr
          THEN [found |-> TRUE, info |-> deref(r, result).info]
          ELSE [found |-> FALSE, info |-> info]

\* size() returning the height of the root
size_as_height(r) == height(r)

\* int size() const
size(r) == Len(to_vector(r, <<>>))

\* bool empty() const
empty(r) == r = nullptr

\* avl_tree& operator=(const avl_tree& src): the root of *this after the
\* call; same is (this == &src)
operator_assign(r, src_root, same) ==
    IF ~same THEN clone(src_root) ELSE r

\* ------------------------------------------------------ maxinfo_selector
\* [](auto& a, auto& b) { return a.second > b.second; }
comp(a, b) == a[2] > b[2]

\* std::sort(v.begin(), v.end(), comp): the vectors it can leave in v.  It
\* orders v by comp and promises nothing about the order of elements that
\* are equivalent under comp, so every arrangement of v in which no element
\* comes before one that comp puts strictly ahead of it is an outcome.
std_sort(v) ==
    IF v = <<>> THEN {<<>>}
    ELSE {s \in {[i \in 1..Len(v) |-> v[p[i]]] : p \in Permutations(1..Len(v))} :
            \A i, j \in 1..Len(v) : i < j => ~comp(s[j], s[i])}

\* A value-initialised std::pair<Key, Info>
ValuePair == <<0, DefaultInfo>>

\* v.resize(n)
resize(v, n) ==
    IF n <= Len(v) THEN SubSeq(v, 1, n)
    ELSE v \o [i \in 1..(n - Len(v)) |-> ValuePair]

\* maxinfo_selector without the test cnt < v.size()
maxinfo_selector_always_resize(tree, c) ==
    {resize(s, c) : s \in std_sort(to_vector(tree, <<>>))}

\* maxinfo_selector(tree, cnt): the vectors it can return
maxinfo_selector(tree, c) ==
    {IF c < Len(s) THEN resize(s, c) ELSE s : s \in std_sort(to_vector(tree, <<>>))}

\* ------------------------------------------------------------ count_words
\* A char is its code; a std::string and the contents of the stream are
\* sequences of chars.  The stream holds only these characters: newline,
\* space, '!', '1', 'A', 'a', 'b'.
Chars == {10, 32, 33, 49, 65, 97, 98}

\* std::isspace, std::isalnum, std::tolower in the "C" locale
isspace(c) == c \in (9..13) \cup {32}
isalnum(c) == c \in (48..57) \cup (65..90) \cup (97..122)
tolower(c) == IF c \in 65..90 THEN c + 32 ELSE c

\* is >> word: leading whitespace is skipped, then characters are taken up
\* to the next whitespace or the end of the stream; the extraction fails if
\* there is none to take
RECURSIVE skip_ws(_)
skip_ws(is) == IF is # <<>> /\ isspace(Head(is)) THEN skip_ws(Tail(is)) ELSE is

RECURSIVE take_word(_, _)
take_word(is, word) ==
    IF is # <<>> /\ ~isspace(Head(is))
      THEN take_word(Tail(is), Append(word, Head(is)))
      ELSE [word |-> word, is |-> is]

extract(is) ==
    LET got == take_word(skip_ws(is), <<>>)
    IN  [ok |-> got.word # <<>>, word |-> got.word, is |-> got.is]

\* the loop over the characters of word without std::tolower
RECURSIVE clean_keeps_case(_, _)
clean_keeps_case(word, cleaned_word) ==
    IF word = <<>> THEN cleaned_word
    ELSE clean_keeps_case(Tail(word),
             IF isalnum(Head(word)) THEN Append(cleaned_word, Head(word))
                                    ELSE cleaned_word)

\* for (char c : word) if (std::isalnum(c)) cleaned_word += std::tolower(c);
RECURSIVE clean(_, _)
clean(word, cleaned_word) ==
    IF word = <<>> THEN cleaned_word
    ELSE clean(Tail(word),
             IF isalnum(Head(word)) THEN Append(cleaned_word, tolower(Head(word)))
                                    ELSE cleaned_word)

\* The keys of avl_tree<std::string, int> are compared with the <, > and ==
\* of std::string: character by character, a proper prefix first.  A string
\* is stored as the number that has the same order: its characters, each by
\* its position among Chars, as the digits of a number of MaxInput digits.
MaxInput == 5
CharRank(c) == Cardinality({d \in Chars : d <= c})
Base == Cardinality(Chars) + 1

RECURSIVE Power(_, _)
Power(b, e) == IF e = 0 THEN 1 ELSE b * Power(b, e - 1)

RECURSIVE string_key_from(_, _)
string_key_from(w, i) ==
    IF i > Len(w) THEN 0
    ELSE CharRank(w[i]) * Power(Base, MaxInput - i) + string_key_from(w, i + 1)

string_key(w) == string_key_from(w, 1)

\* word_count[cleaned_word]++
increment(word_count, key) ==
    LET r == index_mut(word_count, key)
    IN  store_info(r.tree, r.n, deref(r.tree, r.n).info + 1)

\* the while loop of count_words without the test !cleaned_word.empty()
RECURSIVE count_words_loop_counts_empty(_, _)
count_words_loop_counts_empty(is, word_count) ==
    LET e == extract(is)
    IN  IF ~e.ok THEN word_count
        ELSE count_words_loop_counts_empty(e.is,
                 increment(word_count, string_key(clean(e.word, <<>>))))

\* while (is >> word) { ... }: the tree when the loop ends
RECURSIVE count_words_loop(_, _)
count_words_loop(is, word_count) ==
    LET e == extract(is)
        cleaned_word == clean(e.word, <<>>)
    IN  IF ~e.ok THEN word_count
        ELSE count_words_loop(e.is,
                 IF cleaned_word # <<>>
                   THEN increment(word_count, string_key(cleaned_word))
                   ELSE word_count)

\* avl_tree<std::string, int> count_words(std::istream& is)
count_words(is) == count_words_loop(is, nullptr)

\* ------------------------------------------------------------------ heap
\* The same functions over an explicit heap, for what depends on which
\* object owns which node.  A node* is an address, NullAddr is nullptr, the
\* heap h maps every address to the node stored there or to Free.  A function
\* that changes nodes or returns a node* gives [mem, p]: the heap after the
\* call and the pointer returned.
NullAddr == 0
MaxAddr == 2 * MaxCopyKey
Addrs == 1..MaxAddr
Free == [free |-> TRUE]
FreeCells(h) == {p \in Addrs : h[p] = Free}

\* new node(k, i): the allocator hands out a free cell; which one is not
\* observable by the program, the lowest one stands for any
new_node(h, k, i) ==
    LET p == CHOOSE q \in FreeCells(h) : \A o \in FreeCells(h) : q <= o
    IN  [mem |-> [h EXCEPT ![p] = [key |-> k, info |-> i, left |-> NullAddr,
                                   right |-> NullAddr, height |-> 1]],
         p |-> p]

\* delete n
delete_node(h, n) == [h EXCEPT ![n] = Free]

height_in(h, n) == IF n # NullAddr THEN h[n].height ELSE 0

update_height_in(h, n) ==
    [h EXCEPT ![n].height = 1 + max(height_in(h, h[n].left), height_in(h, h[n].right))]

balance_factor_in(h, n) == height_in(h, h[n].left) - height_in(h, h[n].right)

rotate_right_in(h, y) ==
    LET x == h[y].left
        T2 == h[x].right
        h1 == [h EXCEPT ![x].right = y, ![y].left = T2]
        h2 == update_height_in(h1, y)
    IN  [mem |-> update_height_in(h2, x), p |-> x]

rotate_left_in(h, x) ==
    LET y == h[x].right
        T2 == h[y].left
        h1 == [h EXCEPT ![y].left = x, ![x].right = T2]
        h2 == update_height_in(h1, x)
    IN  [mem |-> update_height_in(h2, y), p |-> y]

rebalance_in(h0, n) ==
    LET h == update_height_in(h0, n)
        balance == balance_factor_in(h, n)
    IN  IF balance > 1 /\ balance_factor_in(h, h[n].left) >= 0
          THEN rotate_right_in(h, n)
        ELSE IF balance < -1 /\ balance_factor_in(h, h[n].right) <= 0
          THEN rotate_left_in(h, n)
        ELSE IF balance > 1 /\ balance_factor_in(h, h[n].left) < 0
          THEN LET l == rotate_left_in(h, h[n].left)
               IN  rotate_right_in([l.mem EXCEPT ![n].left = l.p], n)
        ELSE IF balance < -1 /\ balance_factor_in(h, h[n].right) > 0
          THEN LET r == rotate_right_in(h, h[n].right)
               IN  rotate_left_in([r.mem EXCEPT ![n].right = r.p], n)
        ELSE [mem |-> h, p |-> n]

RECURSIVE min_node_in(_, _)
min_node_in(h, n) == IF h[n].left # NullAddr THEN min_node_in(h, h[n].left) ELSE n

RECURSIVE insert_in(_, _, _, _)
insert_in(h, n, key, info) ==
    IF n = NullAddr THEN new_node(h, key, info)
    ELSE IF key < h[n].key
      THEN LET l == insert_in(h, h[n].left, key, info)
           IN  rebalance_in([l.mem EXCEPT ![n].left = l.p], n)
    ELSE IF key > h[n].key
      THEN LET r == insert_in(h, h[n].right, key, info)
           IN  rebalance_in([r.mem EXCEPT ![n].right = r.p], n)
    ELSE [mem |-> [h EXCEPT ![n].info = info], p |-> n]

RECURSIVE remove_in(_, _, _)
remove_in(h, n, key) ==
    IF n = NullAddr THEN [mem |-> h, p |-> NullAddr]
    ELSE IF key < h[n].key
      THEN LET l == remove_in(h, h[n].left, key)
           IN  rebalance_in([l.mem EXCEPT ![n].left = l.p], n)
    ELSE IF key > h[n].key
      THEN LET r == remove_in(h, h[n].right, key)
           IN  rebalance_in([r.mem EXCEPT ![n].right = r.p], n)
    ELSE IF h[n].left = NullAddr \/ h[n].right = NullAddr
      THEN LET temp == IF h[n].left # NullAddr THEN h[n].left ELSE h[n].right
           IN  IF temp = NullAddr
                 THEN [mem |-> delete_node(h, n), p |-> NullAddr]
                 ELSE rebalance_in(delete_node([h EXCEPT ![n] = h[temp]], temp), n)
    ELSE LET temp == min_node_in(h, h[n].right)
             h1 == [h EXCEPT ![n].key = h[temp].key, ![n].info = h[temp].info]
             r == remove_in(h1, h1[n].right, h1[temp].key)
         IN  rebalance_in([r.mem EXCEPT ![n].right = r.p], n)

RECURSIVE to_vector_in(_, _, _)
to_vector_in(h, n, vec) ==
    IF n = NullAddr THEN vec
    ELSE to_vector_in(h, h[n].right,
             Append(to_vector_in(h, h[n].left, vec), <<h[n].key, h[n].info>>))

\* clone returning its argument: the copy shares every node with the source
clone_in_shallow(h, n) == [mem |-> h, p |-> n]

RECURSIVE clone_in(_, _)
clone_in(h, n) ==
    IF n = NullAddr THEN [mem |-> h, p |-> NullAddr]
    ELSE LET new == new_node(h, h[n].key, h[n].info)
             l == clone_in(new.mem, h[n].left)
             r == clone_in(l.mem, h[n].right)
         IN  [mem |-> [r.mem EXCEPT ![new.p].left = l.p,
                                    ![new.p].right = r.p,
                                    ![new.p].height = h[n].height],
              p |-> new.p]

\* void clear(node* n): the heap after it
RECURSIVE clear_in(_, _)
clear_in(h, n) ==
    IF n = NullAddr THEN h
    ELSE delete_node(clear_in(clear_in(h, h[n].left), h[n].right), n)

RECURSIVE find_in(_, _, _)
find_in(h, current, key) ==
    IF current = NullAddr THEN NullAddr
    ELSE IF key < h[current].key THEN find_in(h, h[current].left, key)
    ELSE IF key > h[current].key THEN find_in(h, h[current].right, key)
    ELSE current

\* Info& operator[](const Key& key): the heap and the root after the call,
\* and the node whose info the returned reference names
index_mut_in(h, r, key) ==
    LET n == find_in(h, r, key)
    IN  IF n = NullAddr
          THEN LET ins == insert_in(h, r, key, DefaultInfo)
               IN  [mem |-> ins.mem, p |-> ins.p, n |-> find_in(ins.mem, ins.p, key)]
          ELSE [mem |-> h, p |-> r, n |-> n]

search_in(h, r, key, info) ==
    LET n == find_in(h, r, key)
    IN  IF n # NullAddr THEN [found |-> TRUE, info |-> h[n].info]
        ELSE [found |-> FALSE, info |-> info]

\* int size() const
size_in(h, r) == Len(to_vector_in(h, r, <<>>))

\* bool empty() const
empty_in(r) == r = NullAddr

\* avl_tree(const avl_tree& src) : root(clone(src.root))
copy_construct_in(h, src_root) == clone_in(h, src_root)

\* clear() without root = nullptr
public_clear_in_keeps_root(h, r) == [mem |-> clear_in(h, r), p |-> r]

\* void clear(): clear(root); root = nullptr
public_clear_in(h, r) == [mem |-> clear_in(h, r), p |-> NullAddr]

\* avl_tree& operator=(const avl_tree& src)
operator_assign_in(h, r, src_root, same) ==
    IF ~same
      THEN LET c == public_clear_in(h, r)
           IN  clone_in(c.mem, src_root)
      ELSE [mem |-> h, p |-> r]

\* ~avl_tree(): clear(root)
destructor_in(h, r) == clear_in(h, r)

\* --------------------------------------------------------------- Sequence
\* Part 2: Sequence<Key, Info> (LAB_104_task1, sequence.hpp) and the two
\* split functions (split.hpp).  A Sequence is the list of its nodes in link
\* order, head first; a Node* is the index of its node in that list, 0 for
\* nullptr.  A function that can throw returns the name of the exception in
\* the field thrown ("none": it returned).
MaxSeqLen == 3

\* Node(Key k, Info i) : key(k), info(i), next(nullptr)
SeqNode(k, i) == [key |-> k, info |-> i]

\* head
seq_head(s) == IF Len(s) = 0 THEN 0 ELSE 1

\* current->next
seq_next(s, current) == IF current = Len(s) THEN 0 ELSE current + 1

\* bool is_empty() const
seq_is_empty(s) == seq_head(s) = 0

\* void push_front(const Key& k, const Info& i)
seq_push_front(s, k, i) == <<SeqNode(k, i)>> \o s

\* bool pop_front()
seq_pop_front(s) ==
    IF seq_is_empty(s) THEN [ok |-> FALSE, seq |-> s]
    ELSE [ok |-> TRUE, seq |-> SubSeq(s, 2, Len(s))]

\* while (current->next) current = current->next
RECURSIVE seq_tail(_, _)
seq_tail(s, current) ==
    IF seq_next(s, current) # 0 THEN seq_tail(s, seq_next(s, current)) ELSE current

\* The list with node n linked in after the node current
seq_link_after(s, current, n) ==
    SubSeq(s, 1, current) \o <<n>> \o SubSeq(s, current + 1, Len(s))

\* The list with the node after current unlinked and deleted
seq_unlink_after(s, current) ==
    SubSeq(s, 1, current) \o SubSeq(s, current + 2, Len(s))

\* void push_back(const Key& k, const Info& i)
seq_push_back(s, k, i) ==
    IF seq_is_empty(s) THEN <<SeqNode(k, i)>>
    ELSE seq_link_after(s, seq_tail(s, seq_head(s)), SeqNode(k, i))

\* unsigned int size() const
RECURSIVE seq_size_from(_, _, _)
seq_size_from(s, current, count) ==
    IF current # 0 THEN seq_size_from(s, seq_next(s, current), count + 1) ELSE count

seq_size(s) == seq_size_from(s, seq_head(s), 0)

\* for (int idx = 0; idx < n; ++idx) { if (!current) <leave>; current =
\* current->next; } : the node reached, 0 when the walk met nullptr
RECURSIVE seq_walk(_, _, _, _)
seq_walk(s, current, idx, n) ==
    IF idx < n
      THEN IF current = 0 THEN 0 ELSE seq_walk(s, seq_next(s, current), idx + 1, n)
      ELSE current

\* insert_at with the out-of-bounds test of the loop only
insert_at_links_after_null(s, k, i, position) ==
    IF position < 0 THEN [ok |-> FALSE, seq |-> s]
    ELSE IF position = 0 THEN [ok |-> TRUE, seq |-> seq_push_front(s, k, i)]
    ELSE LET current == seq_walk(s, seq_head(s), 0, position - 1)
         IN  [ok |-> TRUE, seq |-> seq_link_after(s, current, SeqNode(k, i))]

\* bool insert_at(const Key& k, const Info& i, int position)
insert_at(s, k, i, position) ==
    IF position < 0 THEN [ok |-> FALSE, seq |-> s]
    ELSE IF position = 0 THEN [ok |-> TRUE, seq |-> seq_push_front(s, k, i)]
    ELSE LET current == seq_walk(s, seq_head(s), 0, position - 1)
         IN  IF current = 0 THEN [ok |-> FALSE, seq |-> s]
             ELSE [ok |-> TRUE, seq |-> seq_link_after(s, current, SeqNode(k, i))]

\* for (int idx = 0; idx < n; ++idx) { if (!current->next) return false;
\* current = current->next; } : the node reached, 0 when it returned false
RECURSIVE remove_at_walk(_, _, _, _)
remove_at_walk(s, current, idx, n) ==
    IF idx < n
      THEN IF seq_next(s, current) = 0 THEN 0
           ELSE remove_at_walk(s, seq_next(s, current), idx + 1, n)
      ELSE current

\* bool remove_at(int position)
remove_at(s, position) ==
    IF position < 0 \/ seq_is_empty(s) THEN [ok |-> FALSE, seq |-> s]
    ELSE IF position = 0 THEN [ok |-> TRUE, seq |-> seq_pop_front(s).seq]
    ELSE LET current == remove_at_walk(s, seq_head(s), 0, position - 1)
         IN  IF current = 0 \/ seq_next(s, current) = 0 THEN [ok |-> FALSE, seq |-> s]
             ELSE [ok |-> TRUE, seq |-> seq_unlink_after(s, current)]

\* The node at position, as get_key_at and get_info_at find it: 0 when they
\* throw std::out_of_range
get_at(s, position) ==
    IF position < 0 THEN 0 ELSE seq_walk(s, seq_head(s), 0, position)

\* Key get_key_at(int position) const
get_key_at(s, position) ==
    IF get_at(s, position) = 0 THEN [thrown |-> "out_of_range", value |-> 0]
    ELSE [thrown |-> "none", value |-> s[get_at(s, position)].key]

\* Info get_info_at(int position) const
get_info_at(s, position) ==
    IF get_at(s, position) = 0 THEN [thrown |-> "out_of_range", value |-> 0]
    ELSE [thrown |-> "none", value |-> s[get_at(s, position)].info]

\* ------------------------------------------------------------------ split
\* An int compared with the unsigned int of size(): the int converts to
\* unsigned, a negative one to a value above every size.
less_unsigned(a, u) == a >= 0 /\ a < u
greater_unsigned(a, u) == a < 0 \/ a > u

\* The block loop without its seq.remove_at(pos)
RECURSIVE move_block_copying(_, _, _, _, _)
move_block_copying(s, dst, pos, i, len) ==
    IF i < len /\ less_unsigned(pos, seq_size(s))
      THEN move_block_copying(s,
                              seq_push_back(dst, get_key_at(s, pos).value,
                                            get_info_at(s, pos).value),
                              pos, i + 1, len)
      ELSE [seq |-> s, dst |-> dst]

\* for (int i = 0; i < len && pos < seq.size(); i++) {
\*     dst.push_back(seq.get_key_at(pos), seq.get_info_at(pos));
\*     seq.remove_at(pos); }
RECURSIVE move_block(_, _, _, _, _)
move_block(s, dst, pos, i, len) ==
    IF i < len /\ less_unsigned(pos, seq_size(s))
      THEN move_block(remove_at(s, pos).seq,
                      seq_push_back(dst, get_key_at(s, pos).value, get_info_at(s, pos).value),
                      pos, i + 1, len)
      ELSE [seq |-> s, dst |-> dst]

\* split_loop that takes both blocks of a round from the list as it was
\* when the round began
RECURSIVE split_loop_stale_index(_, _, _, _, _, _, _)
split_loop_stale_index(s, pos, len1, len2, count, s1, s2) ==
    IF less_unsigned(pos, seq_size(s)) /\ count > 0
      THEN LET a == move_block(s, s1, pos, 0, len1)
               b == move_block(a.seq, s2, pos + 1, 0, len2)
           IN  split_loop_stale_index(b.seq, pos, len1, len2, count - 1, a.dst, b.dst)
      ELSE [thrown |-> "none", seq |-> s, seq1 |-> s1, seq2 |-> s2]

\* while (pos < seq.size() && count > 0) { <len1 block>; <len2 block>;
\* count--; } : the loop of split_pos, and word for word (with currentPos)
\* the second loop of split_key
RECURSIVE split_loop(_, _, _, _, _, _, _)
split_loop(s, pos, len1, len2, count, s1, s2) ==
    IF less_unsigned(pos, seq_size(s)) /\ count > 0
      THEN LET a == move_block(s, s1, pos, 0, len1)
               b == move_block(a.seq, s2, pos, 0, len2)
           IN  split_loop(b.seq, pos, len1, len2, count - 1, a.dst, b.dst)
      ELSE [thrown |-> "none", seq |-> s, seq1 |-> s1, seq2 |-> s2]

\* throw std::invalid_argument(...): nothing has been moved
invalid_argument(s, s1, s2) ==
    [thrown |-> "invalid_argument", seq |-> s, seq1 |-> s1, seq2 |-> s2]

\* split_pos without the test of count against seq.size()
split_pos_count_unchecked(s, start_pos, len1, len2, count, s1, s2) ==
    IF start_pos < 0 \/ greater_unsigned(start_pos, seq_size(s))
            \/ len1 < 0 \/ len2 < 0 \/ count < 0
      THEN invalid_argument(s, s1, s2)
      ELSE split_loop(s, start_pos, len1, len2, count, s1, s2)

\* void split_pos(seq, start_pos, len1, len2, count, seq1, seq2)
split_pos(s, start_pos, len1, len2, count, s1, s2) ==
    IF start_pos < 0 \/ greater_unsigned(start_pos, seq_size(s))
            \/ len1 < 0 \/ len2 < 0 \/ count < 0
            \/ greater_unsigned(count, seq_size(s))
      THEN invalid_argument(s, s1, s2)
      ELSE split_loop(s, start_pos, len1, len2, count, s1, s2)

\* split_key_scan that stops at the first occurrence of start_key
split_key_scan_first(s, start_key, start_occ, i) ==
    LET hits == {j \in 0..(Len(s) - 1) : s[j + 1].key = start_key}
    IN  IF hits = {} THEN [start_occ |-> start_occ, currentPos |-> 0]
        ELSE [start_occ |-> 0, currentPos |-> CHOOSE j \in hits : \A h \in hits : j <= h]

\* for (int i = 0; i < seq.size(); i++) { if (seq.get_key_at(i) ==
\* start_key) { start_occ--; if (start_occ == 0) { currentPos = i; break; } } }
\* from index i on: start_occ and currentPos when the loop ends
RECURSIVE split_key_scan(_, _, _, _)
split_key_scan(s, start_key, start_occ, i) ==
    IF less_unsigned(i, seq_size(s))
      THEN IF get_key_at(s, i).value = start_key
             THEN IF start_occ - 1 = 0
                    THEN [start_occ |-> 0, currentPos |-> i]
                    ELSE split_key_scan(s, start_key, start_occ - 1, i + 1)
             ELSE split_key_scan(s, start_key, start_occ, i + 1)
      ELSE [start_occ |-> start_occ, currentPos |-> 0]

\* void split_key(seq, start_key, start_occ, len1, len2, count, seq1, seq2)
\* The while loop of the search runs its body once at most: after it
\* start_occ is 0, or the function has thrown.
split_key(s, start_key, start_occ, len1, len2, count, s1, s2) ==
    IF start_occ < 0 \/ len1 < 0 \/ len2 < 0 \/ count < 0
            \/ greater_unsigned(count, seq_size(s))
      THEN invalid_argument(s, s1, s2)
      ELSE LET searched == start_occ > 0 /\ seq_size(s) > 0
               found == IF searched THEN split_key_scan(s, start_key, start_occ, 0)
                        ELSE [start_occ |-> start_occ, currentPos |-> 0]
           IN  IF searched /\ found.start_occ > 0
                 THEN invalid_argument(s, s1, s2)
                 ELSE split_loop(s, found.currentPos, len1, len2, count, s1, s2)

\* ---------------------------------------------------------------- bi_ring
\* Part 3: bi_ring<Key, Info> with join and shuffle (LAB_104_task2,
\* bi_ring.hpp).  A ring is a record of its members any and version and of
\* the cells its nodes live in: cells[p] is the Node at address p (key,
\* info, next, prev), or Free.  new takes the lowest free cell, or a new one
\* when none is free.  A member function returns the ring after the call,
\* the iterator it returned (ret) and the exception it threw (thrown);
\* crashed: the call read through nullptr and the process ended there.
MaxRing == 4
MaxVersion == 8
MaxStale == 1

\* bi_ring() : any(nullptr), version(0)
EmptyRing == [cells |-> <<>>, any |-> NullAddr, version |-> 0]

\* iterator(Node* n, int v) : node(n), version(v)
iterator(n, v) == [node |-> n, version |-> v]

\* What a call that returned hands back
Returned(r, i) == [ring |-> r, ret |-> i, thrown |-> "none", crashed |-> FALSE]

\* throw runtime_error(...): the ring is as it was
runtime_error(r) ==
    [ring |-> r, ret |-> iterator(NullAddr, 0), thrown |-> "runtime_error", crashed |-> FALSE]

\* posNode->prev with posNode == nullptr: the read faults (g++ 12.2, -O0 and
\* -O2: SIGSEGV) before any member of the ring is written
null_dereference(r) ==
    [ring |-> r, ret |-> iterator(NullAddr, 0), thrown |-> "none", crashed |-> TRUE]

\* new Node(key, info): Node(const Key& k, const Info& i) : key(k), info(i),
\* next(this), prev(this)
new_Node(cells, key, info) ==
    LET free == {p \in 1..Len(cells) : cells[p] = Free}
        this == IF free = {} THEN Len(cells) + 1
                ELSE CHOOSE p \in free : \A q \in free : p <= q
        n == [key |-> key, info |-> info, next |-> this, prev |-> this]
    IN  [cells |-> IF free = {} THEN Append(cells, n) ELSE [cells EXCEPT ![this] = n],
         p |-> this]

\* delete p
delete_Node(cells, p) == [cells EXCEPT ![p] = Free]

\* push_back that leaves any->prev on the old tail
ring_push_back_prev_kept(r, key, info) ==
    LET a == new_Node(r.cells, key, info)
        newNode == a.p
        v == r.version + 1
    IN  IF r.any = NullAddr
          THEN Returned([cells |-> a.cells, any |-> newNode, version |-> v],
                        iterator(newNode, v))
          ELSE LET tail == a.cells[r.any].prev
                   c1 == [a.cells EXCEPT ![newNode].next = r.any]
                   c2 == [c1 EXCEPT ![newNode].prev = tail]
                   c3 == [c2 EXCEPT ![tail].next = newNode]
               IN  Returned([cells |-> c3, any |-> r.any, version |-> v],
                            iterator(newNode, v))

\* iterator push_front(const Key& key, const Info& info)
ring_push_front(r, key, info) ==
    LET a == new_Node(r.cells, key, info)
        newNode == a.p
        v == r.version + 1
    IN  IF r.any = NullAddr
          THEN LET c1 == [a.cells EXCEPT ![newNode].next = newNode]
                   c2 == [c1 EXCEPT ![newNode].prev = newNode]
               IN  Returned([cells |-> c2, any |-> newNode, version |-> v],
                            iterator(newNode, v))
          ELSE LET tail == a.cells[r.any].prev
                   c1 == [a.cells EXCEPT ![newNode].next = r.any]
                   c2 == [c1 EXCEPT ![newNode].prev = tail]
                   c3 == [c2 EXCEPT ![tail].next = newNode]
                   c4 == [c3 EXCEPT ![r.any].prev = newNode]
               IN  Returned([cells |-> c4, any |-> newNode, version |-> v],
                            iterator(newNode, v))

\* iterator pop_front()
ring_pop_front(r) ==
    IF r.any = NullAddr THEN Returned(r, iterator(NullAddr, r.version))
    ELSE LET toDelete == r.any
             v == r.version + 1
         IN  IF r.cells[r.any].next = r.any
               THEN Returned([cells |-> delete_Node(r.cells, toDelete),
                              any |-> NullAddr, version |-> v],
                             iterator(NullAddr, v))
               ELSE LET tail == r.cells[r.any].prev
                        any2 == r.cells[r.any].next
                        c1 == [r.cells EXCEPT ![tail].next = any2]
                        c2 == [c1 EXCEPT ![any2].prev = tail]
                    IN  Returned([cells |-> delete_Node(c2, toDelete),
                                  any |-> any2, version |-> v],
                                 iterator(any2, v))

\* iterator push_back(const Key& key, const Info& info)
ring_push_back(r, key, info) ==
    LET a == new_Node(r.cells, key, info)
        newNode == a.p
        v == r.version + 1
    IN  IF r.any = NullAddr
          THEN Returned([cells |-> a.cells, any |-> newNode, version |-> v],
                        iterator(newNode, v))
          ELSE LET tail == a.cells[r.any].prev
                   c1 == [a.cells EXCEPT ![newNode].next = r.any]
                   c2 == [c1 EXCEPT ![newNode].prev = tail]
                   c3 == [c2 EXCEPT ![tail].next = newNode]
                   c4 == [c3 EXCEPT ![r.any].prev = newNode]
               IN  Returned([cells |-> c4, any |-> r.any, version |-> v],
                            iterator(newNode, v))

\* iterator pop_back()
ring_pop_back(r) ==
    IF r.any = NullAddr THEN Returned(r, iterator(NullAddr, r.version))
    ELSE LET tail == r.cells[r.any].prev
             v == r.version + 1
         IN  IF tail = r.any
               THEN Returned([cells |-> delete_Node(r.cells, tail),
                              any |-> NullAddr, version |-> v],
                             iterator(NullAddr, v))
               ELSE LET newTail == r.cells[tail].prev
                        c1 == [r.cells EXCEPT ![newTail].next = r.any]
                        c2 == [c1 EXCEPT ![r.any].prev = newTail]
                    IN  Returned([cells |-> delete_Node(c2, tail),
                                  any |-> r.any, version |-> v],
                                 iterator(r.any, v))

\* insert that links the new node in after position
ring_insert_after(r, position, key, info) ==
    IF position.version # r.version THEN runtime_error(r)
    ELSE IF position.node = NullAddr THEN null_dereference(r)
    ELSE LET a == new_Node(r.cells, key, info)
             newNode == a.p
             posNode == position.node
             nextNode == a.cells[posNode].next
             c1 == [a.cells EXCEPT ![newNode].prev = posNode]
             c2 == [c1 EXCEPT ![newNode].next = nextNode]
             c3 == [c2 EXCEPT ![nextNode].prev = newNode]
             c4 == [c3 EXCEPT ![posNode].next = newNode]
             v == r.version + 1
         IN  Returned([cells |-> c4, any |-> r.any, version |-> v], iterator(newNode, v))

\* insert without the comparison of the versions
ring_insert_unchecked(r, position, key, info) ==
    IF position.node = NullAddr THEN null_dereference(r)
    ELSE LET a == new_Node(r.cells, key, info)
             newNode == a.p
             posNode == position.node
             prevNode == a.cells[posNode].prev
             c1 == [a.cells EXCEPT ![newNode].next = posNode]
             c2 == [c1 EXCEPT ![newNode].prev = prevNode]
             c3 == [c2 EXCEPT ![prevNode].next = newNode]
             c4 == [c3 EXCEPT ![posNode].prev = newNode]
             v == r.version + 1
         IN  Returned([cells |-> c4, any |-> r.any, version |-> v], iterator(newNode, v))

\* iterator insert(iterator position, const Key& key, const Info& info)
ring_insert(r, position, key, info) ==
    IF position.version # r.version THEN runtime_error(r)
    ELSE IF position.node = NullAddr THEN null_dereference(r)
    ELSE LET a == new_Node(r.cells, key, info)
             newNode == a.p
             posNode == position.node
             prevNode == a.cells[posNode].prev
             c1 == [a.cells EXCEPT ![newNode].next = posNode]
             c2 == [c1 EXCEPT ![newNode].prev = prevNode]
             c3 == [c2 EXCEPT ![prevNode].next = newNode]
             c4 == [c3 EXCEPT ![posNode].prev = newNode]
             v == r.version + 1
         IN  Returned([cells |-> c4, any |-> r.any, version |-> v], iterator(newNode, v))

\* erase that moves any back to the predecessor of an erased begin element
ring_erase_any_kept(r, position) ==
    IF position.version # r.version \/ r.any = NullAddr THEN runtime_error(r)
    ELSE LET toDelete == position.node
             v == r.version + 1
         IN  IF r.cells[toDelete].next = toDelete
               THEN Returned([cells |-> delete_Node(r.cells, toDelete),
                              any |-> NullAddr, version |-> v],
                             iterator(NullAddr, v))
               ELSE LET prevNode == r.cells[toDelete].prev
                        nextNode == r.cells[toDelete].next
                        c1 == [r.cells EXCEPT ![prevNode].next = nextNode]
                        c2 == [c1 EXCEPT ![nextNode].prev = prevNode]
                        any2 == IF toDelete = r.any THEN prevNode ELSE r.any
                    IN  Returned([cells |-> delete_Node(c2, toDelete),
                                  any |-> any2, version |-> v],
                                 iterator(any2, v))

\* iterator erase(iterator position)
ring_erase(r, position) ==
    IF position.version # r.version \/ r.any = NullAddr THEN runtime_error(r)
    ELSE LET toDelete == position.node
             v == r.version + 1
         IN  IF r.cells[toDelete].next = toDelete
               THEN Returned([cells |-> delete_Node(r.cells, toDelete),
                              any |-> NullAddr, version |-> v],
                             iterator(NullAddr, v))
               ELSE LET prevNode == r.cells[toDelete].prev
                        nextNode == r.cells[toDelete].next
                        c1 == [r.cells EXCEPT ![prevNode].next = nextNode]
                        c2 == [c1 EXCEPT ![nextNode].prev = prevNode]
                        any2 == IF toDelete = r.any THEN nextNode ELSE r.any
                    IN  Returned([cells |-> delete_Node(c2, toDelete),
                                  any |-> any2, version |-> v],
                                 iterator(any2, v))

\* iterator begin() const
begin(r) == iterator(r.any, r.version)

\* iterator& operator++() / iterator operator++(int): node = node->next
increment_iterator(r, i) == iterator(r.cells[i.node].next, i.version)

\* iterator& operator--(): node = node->prev
decrement_iterator(r, i) == iterator(r.cells[i.node].prev, i.version)

\* Key& key() / Info& info()
iterator_key(r, i) == r.cells[i.node].key
iterator_info(r, i) == r.cells[i.node].info

\* bool is_empty() const
ring_is_empty(r) == r.any = NullAddr

\* do { if (current->key == key) return ...; current = current->next; }
\* while (current != any); : the node found, nullptr when there is none
RECURSIVE ring_find_from(_, _, _)
ring_find_from(r, current, key) ==
    IF r.cells[current].key = key THEN current
    ELSE IF r.cells[current].next # r.any
           THEN ring_find_from(r, r.cells[current].next, key)
           ELSE NullAddr

\* const_iterator find(const Key& key) const
ring_find(r, key) ==
    IF r.any = NullAddr THEN iterator(NullAddr, r.version)
    ELSE iterator(ring_find_from(r, r.any, key), r.version)

\* bool is_key_in_ring(const Key& key) const
is_key_in_ring(r, key) ==
    IF r.any = NullAddr THEN FALSE ELSE ring_find_from(r, r.any, key) # NullAddr

\* toVector(r) of the tests: do { out.push_back({it.key(), it.info()});
\* ++it; } while (it != r.begin());
RECURSIVE toVector_from(_, _, _)
toVector_from(r, i, vec) ==
    LET pushed == Append(vec, <<iterator_key(r, i), iterator_info(r, i)>>)
        nxt == increment_iterator(r, i)
    IN  IF nxt.node # begin(r).node THEN toVector_from(r, nxt, pushed) ELSE pushed

toVector(r) == IF ring_is_empty(r) THEN <<>> ELSE toVector_from(r, begin(r), <<>>)

\* join whose second loop appends every element of second
RECURSIVE join_second_all(_, _, _, _)
join_second_all(fst, snd, it2, res) ==
    LET k == iterator_key(snd, it2)
        pushed == ring_push_back(res, k, iterator_info(snd, it2)).ring
        nxt == increment_iterator(snd, it2)
    IN  IF iterator_key(snd, nxt) # iterator_key(snd, begin(snd))
          THEN join_second_all(fst, snd, nxt, pushed)
          ELSE pushed

\* do { Key k = it1.key(); Info v = it1.info(); if (second.is_key_in_ring(k))
\* v = v + second.find(k).info(); result.push_back(k, v); it1++; }
\* while (it1.key() != first.begin().key());
RECURSIVE join_first(_, _, _, _)
join_first(fst, snd, it1, res) ==
    LET k == iterator_key(fst, it1)
        v == iterator_info(fst, it1)
        sum == IF is_key_in_ring(snd, k)
                 THEN v + iterator_info(snd, ring_find(snd, k))
                 ELSE v
        pushed == ring_push_back(res, k, sum).ring
        nxt == increment_iterator(fst, it1)
    IN  IF iterator_key(fst, nxt) # iterator_key(fst, begin(fst))
          THEN join_first(fst, snd, nxt, pushed)
          ELSE pushed

\* do { Key k = it2.key(); if (!first.is_key_in_ring(k)) result.push_back(k,
\* it2.info()); it2++; } while (it2.key() != second.begin().key());
RECURSIVE join_second(_, _, _, _)
join_second(fst, snd, it2, res) ==
    LET k == iterator_key(snd, it2)
        pushed == IF ~is_key_in_ring(fst, k)
                    THEN ring_push_back(res, k, iterator_info(snd, it2)).ring
                    ELSE res
        nxt == increment_iterator(snd, it2)
    IN  IF iterator_key(snd, nxt) # iterator_key(snd, begin(snd))
          THEN join_second(fst, snd, nxt, pushed)
          ELSE pushed

\* bi_ring join(const bi_ring& first, const bi_ring& second)
join(fst, snd) ==
    IF ring_is_empty(fst) /\ ring_is_empty(snd) THEN EmptyRing
    ELSE LET r1 == IF ~ring_is_empty(fst)
                     THEN join_first(fst, snd, begin(fst), EmptyRing)
                     ELSE EmptyRing
         IN  IF ~ring_is_empty(snd) THEN join_second(fst, snd, begin(snd), r1) ELSE r1

\* take that reads every block from begin()
RECURSIVE take_from_begin(_, _, _, _, _)
take_from_begin(r, i, res, n, count) ==
    IF n < count
      THEN take_from_begin(r, increment_iterator(r, i),
                           ring_push_back(res, iterator_key(r, i), iterator_info(r, i)).ring,
                           n + 1, count)
      ELSE [it |-> begin(r), result |-> res]

\* for (unsigned int i = 0; i < cnt; i++) { result.push_back(it.key(),
\* it.info()); it++; } : the iterator and the result after the loop
RECURSIVE take(_, _, _, _, _)
take(r, i, res, n, count) ==
    IF n < count
      THEN take(r, increment_iterator(r, i),
                ring_push_back(res, iterator_key(r, i), iterator_info(r, i)).ring,
                n + 1, count)
      ELSE [it |-> i, result |-> res]

\* for (unsigned int r = 0; r < reps; r++) take(...) : one ring alone
RECURSIVE shuffle_one(_, _, _, _, _, _)
shuffle_one(r, i, res, rep, count, reps) ==
    IF rep < reps
      THEN LET t == take(r, i, res, 0, count)
           IN  shuffle_one(r, t.it, t.result, rep + 1, count, reps)
      ELSE res

\* for (unsigned int r = 0; r < reps; r++) { <fcnt of first>; <scnt of
\* second>; }
RECURSIVE shuffle_both(_, _, _, _, _, _, _, _, _)
shuffle_both(fst, it1, fcnt, snd, it2, scnt, res, rep, reps) ==
    IF rep < reps
      THEN LET t1 == take(fst, it1, res, 0, fcnt)
               t2 == take(snd, it2, t1.result, 0, scnt)
           IN  shuffle_both(fst, t1.it, fcnt, snd, t2.it, scnt, t2.result, rep + 1, reps)
      ELSE res

\* bi_ring shuffle(const bi_ring& first, unsigned int fcnt,
\*                 const bi_ring& second, unsigned int scnt, unsigned int reps)
shuffle(fst, fcnt, snd, scnt, reps) ==
    IF ring_is_empty(fst) /\ ring_is_empty(snd) THEN EmptyRing
    ELSE IF ring_is_empty(snd)
      THEN IF ring_is_empty(fst) \/ fcnt = 0 \/ reps = 0 THEN EmptyRing
           ELSE shuffle_one(fst, begin(fst), EmptyRing, 0, fcnt, reps)
    ELSE IF ring_is_empty(fst)
      THEN IF ring_is_empty(snd) \/ scnt = 0 \/ reps = 0 THEN EmptyRing
           ELSE shuffle_one(snd, begin(snd), EmptyRing, 0, scnt, reps)
    ELSE shuffle_both(fst, begin(fst), fcnt, snd, begin(snd), scnt, EmptyRing, 0, reps)

\* ------------------------------------------------------------------ state
\* root      the root of the tree a
\* other     the root of a second tree b, made and assigned by copying
\* op, arg_key, arg_info   the call the caller has just made, with its
\*           arguments; "idle" between calls
\* prev      root as it was before that call
\* ref       the Info& that call returned (mutable operator[]): a node
\*           pointer, NullPtr when there is none
\* ret       the bool that call returned (search)
\* out       the Info that call wrote or returned (search, const [])
\* map, other_map   the reference maps of a and b, driven by the same
\*           calls (NoInfo: no entry)
\* mem       the heap the trees ha and hb live in
\* roots     the root members of ha and hb
\* obj       the tree the last call was made on, "a" or "b"
\* href      the Info& that call returned, as the address of its node
\* copied    hb exists: it has been constructed, as a copy of ha
\* before    the size() of the tree obj before the last call
\* cnt, sel  the count passed to maxinfo_selector and the vector it returned
\* input     the characters of the stream count_words reads
\* script    the calls of a test run, in order; pc the number of them made
\* seq, seq1, seq2   the three Sequence objects of the split tests
\* ring      a bi_ring; it the iterator the caller passed to the last call,
\*           returned the iterator that call gave back
\* first, second, result   the arguments of join and shuffle and the ring
\*           they returned
\* args      the other arguments of the last call on a Sequence or a ring
\* old       the objects that call could write, as they were before it
\* thrown    the exception that call left by ("none": it returned)
\* crashed   the process has ended in a fault
\* vec       the std::vector the caller passes to to_vector
VARIABLES root, other, ref, prev, op, arg_key, arg_info, ret, out, map, other_map,
          mem, roots, obj, href, copied, before, cnt, sel, input, script, pc,
          seq, seq1, seq2, ring, it, returned, first, second, result,
          args, old, thrown, crashed, vec

vars == <<root, other, ref, prev, op, arg_key, arg_info, ret, out, map, other_map,
          mem, roots, obj, href, copied, before, cnt, sel, input, script, pc,
          seq, seq1, seq2, ring, it, returned, first, second, result,
          args, old, thrown, crashed, vec>>

\* What the calls on the trees root and other leave alone
heap_vars == <<mem, roots, obj, href, copied, before>>
sel_vars == <<cnt, sel>>
run_vars == <<input, script, pc>>
seq_vars == <<seq, seq1, seq2>>
ring_vars == <<ring, it, returned>>
join_vars == <<first, second, result>>
call_vars == <<args, old, thrown, crashed>>
list_vars == <<seq_vars, ring_vars, join_vars, call_vars, vec>>
rest_vars == <<heap_vars, sel_vars, run_vars, list_vars>>

NoInfo == MaxInfo + 1
EmptyMap == [k \in Keys |-> NoInfo]

\* Sequence() : head(nullptr); bi_ring() : any(nullptr), version(0); no call
\* has been made
InitCalls ==
    /\ seq = <<>>
    /\ seq1 = <<>>
    /\ seq2 = <<>>
    /\ ring = EmptyRing
    /\ it = iterator(NullAddr, 0)
    /\ returned = iterator(NullAddr, 0)
    /\ args = <<>>
    /\ old = <<>>
    /\ thrown = "none"
    /\ crashed = FALSE
    /\ vec = <<>>

InitLists ==
    /\ InitCalls
    /\ first = EmptyRing
    /\ second = EmptyRing
    /\ result = EmptyRing

\* avl_tree() : root(nullptr)
InitTrees ==
    /\ root = nullptr
    /\ other = nullptr
    /\ ref = NullPtr
    /\ prev = nullptr
    /\ op = "idle"
    /\ arg_key = 0
    /\ arg_info = 0
    /\ ret = FALSE
    /\ out = DefaultInfo
    /\ map = EmptyMap
    /\ other_map = EmptyMap
    /\ mem = [p \in Addrs |-> Free]
    /\ roots = [a |-> NullAddr, b |-> NullAddr]
    /\ obj = "a"
    /\ href = NullAddr
    /\ copied = FALSE
    /\ before = 0
    /\ cnt = 0
    /\ sel = <<>>
    /\ input = <<>>
    /\ script = <<>>
    /\ pc = 0

Init == InitTrees /\ InitLists

Idle == op = "idle"

Called(name, k, v) ==
    /\ prev' = root
    /\ op' = name
    /\ arg_key' = k
    /\ arg_info' = v

NoResult ==
    /\ ret' = FALSE
    /\ out' = DefaultInfo

\* a.insert(k, v)
Insert(k, v) ==
    /\ Idle
    /\ root' = insert(root, k, v)
    /\ Called("insert", k, v)
    /\ ref' = NullPtr
    /\ map' = [map EXCEPT ![k] = v]
    /\ NoResult
    /\ UNCHANGED <<other, other_map>>
    /\ UNCHANGED rest_vars

\* a.remove(k)
Remove(k) ==
    /\ Idle
    /\ root' = remove(root, k)
    /\ Called("remove", k, 0)
    /\ ref' = NullPtr
    /\ map' = [map EXCEPT ![k] = NoInfo]
    /\ NoResult
    /\ UNCHANGED <<other, other_map>>
    /\ UNCHANGED rest_vars

\* Info& r = a[k];
Index(k) ==
    /\ Idle
    /\ LET res == index_mut(root, k)
       IN  /\ root' = res.tree
           /\ ref' = res.n
    /\ Called("index", k, 0)
    /\ map' = IF map[k] = NoInfo THEN [map EXCEPT ![k] = DefaultInfo] ELSE map
    /\ NoResult
    /\ UNCHANGED <<other, other_map>>
    /\ UNCHANGED rest_vars

\* r = v;  through the reference the preceding a[k] returned
Assign(v) ==
    /\ ref # NullPtr
    /\ root' = store_info(root, ref, v)
    /\ prev' = root
    /\ op' = "assign"
    /\ arg_info' = v
    /\ UNCHANGED arg_key
    /\ map' = [map EXCEPT ![arg_key] = v]
    /\ NoResult
    /\ UNCHANGED <<ref, other, other_map>>
    /\ UNCHANGED rest_vars

\* Info info = o; bool ret = a.search(k, info);
Search(k, o) ==
    /\ Idle
    /\ LET res == search(root, k, o)
       IN  /\ ret' = res.found
           /\ out' = res.info
    /\ Called("search", k, o)
    /\ ref' = NullPtr
    /\ UNCHANGED <<root, map, other, other_map>>
    /\ UNCHANGED rest_vars

\* const Info& out = static_cast<const avl_tree&>(a)[k];
ConstIndex(k) ==
    /\ Idle
    /\ out' = index_const(root, k)
    /\ ret' = FALSE
    /\ Called("const_index", k, 0)
    /\ ref' = NullPtr
    /\ UNCHANGED <<root, map, other, other_map>>
    /\ UNCHANGED rest_vars

\* a.clear()
Clear ==
    /\ Idle
    /\ root' = nullptr
    /\ Called("clear", 0, 0)
    /\ ref' = NullPtr
    /\ map' = EmptyMap
    /\ NoResult
    /\ UNCHANGED <<other, other_map>>
    /\ UNCHANGED rest_vars

\* avl_tree b(a);  (a b of an earlier scope is gone)
CopyConstruct ==
    /\ Idle
    /\ other' = clone(root)
    /\ other_map' = map
    /\ Called("copy", 0, 0)
    /\ ref' = NullPtr
    /\ NoResult
    /\ UNCHANGED <<root, map>>
    /\ UNCHANGED rest_vars

\* b = a;
AssignTo ==
    /\ Idle
    /\ other' = operator_assign(other, root, FALSE)
    /\ other_map' = map
    /\ Called("assign_to", 0, 0)
    /\ ref' = NullPtr
    /\ NoResult
    /\ UNCHANGED <<root, map>>
    /\ UNCHANGED rest_vars

\* a = b;
AssignFrom ==
    /\ Idle
    /\ root' = operator_assign(root, other, FALSE)
    /\ map' = other_map
    /\ Called("assign_from", 0, 0)
    /\ ref' = NullPtr
    /\ NoResult
    /\ UNCHANGED <<other, other_map>>
    /\ UNCHANGED rest_vars

\* a = a;
AssignSelf ==
    /\ Idle
    /\ root' = operator_assign(root, root, TRUE)
    /\ Called("assign_self", 0, 0)
    /\ ref' = NullPtr
    /\ NoResult
    /\ UNCHANGED <<map, other, other_map>>
    /\ UNCHANGED rest_vars

\* b.clear()
ClearOther ==
    /\ Idle
    /\ other' = nullptr
    /\ other_map' = EmptyMap
    /\ Called("clear_other", 0, 0)
    /\ ref' = NullPtr
    /\ NoResult
    /\ UNCHANGED <<root, map>>
    /\ UNCHANGED rest_vars

\* The caller is done with what the last call returned: the Info&, the
\* bool and the out-parameter go out of scope.
EndScope ==
    /\ op # "idle"
    /\ op' = "idle"
    /\ prev' = nullptr
    /\ arg_key' = 0
    /\ arg_info' = 0
    /\ ref' = NullPtr
    /\ NoResult
    /\ cnt' = 0
    /\ sel' = <<>>
    /\ UNCHANGED <<root, other, map, other_map, heap_vars, run_vars, list_vars>>

\* One tree, every call that takes a key.
Next ==
    \/ \E k \in Keys, v \in Infos : Insert(k, v)
    \/ \E k \in Keys : Remove(k)
    \/ \E k \in Keys : Index(k)
    \/ \E v \in Infos : Assign(v)
    \/ \E k \in Keys, o \in Infos : Search(k, o)
    \/ \E k \in Keys : ConstIndex(k)
    \/ Clear
    \/ EndScope

Spec == Init /\ [][Next]_vars

\* Two trees: a is modified over the keys 1..MaxCopyKey, b is made from a,
\* assigned from and to a, and cleared.
CopyKeys == 1..MaxCopyKey

NextCopy ==
    \/ \E k \in CopyKeys, v \in Infos : Insert(k, v)
    \/ \E k \in CopyKeys : Remove(k)
    \/ \E k \in CopyKeys : Index(k)
    \/ \E v \in Infos : Assign(v)
    \/ Clear
    \/ CopyConstruct
    \/ AssignTo
    \/ AssignFrom
    \/ AssignSelf
    \/ ClearOther
    \/ EndScope

SpecCopy == Init /\ [][NextCopy]_vars

\* --------------------------------------------------- one tree, selected
\* auto sel = maxinfo_selector(a, c);
MaxInfoSelector(c) ==
    /\ Idle
    /\ \E v \in maxinfo_selector(root, c) : sel' = v
    /\ cnt' = c
    /\ Called("maxinfo_selector", 0, 0)
    /\ ref' = NullPtr
    /\ NoResult
    /\ UNCHANGED <<root, map, other, other_map, heap_vars, run_vars, list_vars>>

MaxSelKey == 4
SelKeys == 1..MaxSelKey
Counts == 0..(MaxSelKey + 1)

NextSelect ==
    \/ \E k \in SelKeys, v \in Infos : Insert(k, v)
    \/ \E k \in SelKeys : Remove(k)
    \/ \E c \in Counts : MaxInfoSelector(c)
    \/ EndScope

SpecSelect == Init /\ [][NextSelect]_vars

\* ------------------------------------------------------ words of a stream
\* std::istringstream iss(input);
Inputs == UNION {[1..n -> Chars] : n \in 0..MaxInput}

InitWords ==
    /\ root = nullptr
    /\ other = nullptr
    /\ ref = NullPtr
    /\ prev = nullptr
    /\ op = "idle"
    /\ arg_key = 0
    /\ arg_info = 0
    /\ ret = FALSE
    /\ out = DefaultInfo
    /\ map = EmptyMap
    /\ other_map = EmptyMap
    /\ mem = [p \in Addrs |-> Free]
    /\ roots = [a |-> NullAddr, b |-> NullAddr]
    /\ obj = "a"
    /\ href = NullAddr
    /\ copied = FALSE
    /\ before = 0
    /\ cnt = 0
    /\ sel = <<>>
    /\ input \in Inputs
    /\ script = <<>>
    /\ pc = 0
    /\ InitLists

\* avl_tree<std::string, int> result = count_words(iss);
CountWords ==
    /\ Idle
    /\ root' = count_words(input)
    /\ Called("count_words", 0, 0)
    /\ ref' = NullPtr
    /\ NoResult
    /\ UNCHANGED <<map, other, other_map, rest_vars>>

NextWords == CountWords

SpecWords == InitWords /\ [][NextWords]_vars

\* ------------------------------------------------------------ test runs
\* The calls of test_rotations_and_structure, test_complex_rotations (both
\* trees) and test_stress_insert_remove with limit = n, each on a new tree.
Call(c, k, i) == [call |-> c, key |-> k, info |-> i]

Rotations321 == <<Call("insert", 3, 3), Call("insert", 2, 2), Call("insert", 1, 1)>>
RotationsLR == <<Call("insert", 30, 1), Call("insert", 10, 1), Call("insert", 20, 1)>>
RotationsRL == <<Call("insert", 10, 1), Call("insert", 30, 1), Call("insert", 20, 1)>>

Stress(n) ==
    [i \in 1..n |-> Call("insert", i - 1, (i - 1) * 2)]
        \o [j \in 1..((n + 1) \div 2) |-> Call("remove", (j - 1) * 2, 0)]

MaxLimit == 16
StressRuns == {Stress(n) : n \in 0..MaxLimit}
Scripts == {Rotations321, RotationsLR, RotationsRL} \cup StressRuns

InitRun ==
    /\ root = nullptr
    /\ other = nullptr
    /\ ref = NullPtr
    /\ prev = nullptr
    /\ op = "idle"
    /\ arg_key = 0
    /\ arg_info = 0
    /\ ret = FALSE
    /\ out = DefaultInfo
    /\ map = EmptyMap
    /\ other_map = EmptyMap
    /\ mem = [p \in Addrs |-> Free]
    /\ roots = [a |-> NullAddr, b |-> NullAddr]
    /\ obj = "a"
    /\ href = NullAddr
    /\ copied = FALSE
    /\ before = 0
    /\ cnt = 0
    /\ sel = <<>>
    /\ input = <<>>
    /\ script \in Scripts
    /\ pc = 0
    /\ InitLists

\* The next call of the run is tree.insert(key, info)
RunInsert ==
    /\ pc < Len(script)
    /\ script[pc + 1].call = "insert"
    /\ root' = insert(root, script[pc + 1].key, script[pc + 1].info)
    /\ Called("insert", script[pc + 1].key, script[pc + 1].info)
    /\ pc' = pc + 1
    /\ UNCHANGED <<ref, ret, out, map, other, other_map, heap_vars, sel_vars, input, script,
                   list_vars>>

\* The next call of the run is tree.remove(key)
RunRemove ==
    /\ pc < Len(script)
    /\ script[pc + 1].call = "remove"
    /\ root' = remove(root, script[pc + 1].key)
    /\ Called("remove", script[pc + 1].key, 0)
    /\ pc' = pc + 1
    /\ UNCHANGED <<ref, ret, out, map, other, other_map, heap_vars, sel_vars, input, script,
                   list_vars>>

NextRun == RunInsert \/ RunRemove

SpecRun == InitRun /\ [][NextRun]_vars

\* ------------------------------------------------- two trees in one heap
\* ha and hb are two avl_tree objects whose nodes live in mem; every call is
\* the member function of the source run on that heap.  ha is default
\* constructed; hb comes into being by copy construction from ha, and only
\* then takes calls.  map is the reference map of ha, other_map the one of
\* hb.
Trees == {"a", "b"}

\* The infos the calls of this specification pass: Info{} and one other
\* value (no function of the tree compares or computes with an info)
TwoInfos == {DefaultInfo, MaxInfo}
MapOf(t) == IF t = "a" THEN map ELSE other_map

SetMap(t, m) ==
    IF t = "a" THEN map' = m /\ UNCHANGED other_map
               ELSE other_map' = m /\ UNCHANGED map

tree_vars == <<root, other, ref, prev, ret, out, sel_vars, run_vars, list_vars>>

\* Addresses mean nothing to the program (it never compares, orders or prints
\* them), so states that differ by a renaming of addresses are one state.
\* Relocate renames the addresses of a heap by a permutation: the nodes
\* reached from ha in preorder, then those reached from hb, then every
\* other cell in ascending order.  Nothing is dropped: a cell no tree
\* reaches stays allocated, a pointer to a freed cell stays a pointer to a
\* freed cell.
RECURSIVE Preorder(_, _)
Preorder(h, n) ==
    IF n = NullAddr \/ h[n] = Free THEN <<>>
    ELSE <<n>> \o Preorder(h, h[n].left) \o Preorder(h, h[n].right)

RECURSIVE Ascending(_)
Ascending(S) ==
    IF S = {} THEN <<>>
    ELSE LET m == CHOOSE x \in S : \A y \in S : x <= y
         IN  <<m>> \o Ascending(S \ {m})

Range(s) == {s[i] : i \in 1..Len(s)}

Relocate(h, rts, hr) ==
    LET pa == Preorder(h, rts["a"])
        pb == SelectSeq(Preorder(h, rts["b"]), LAMBDA x : x \notin Range(pa))
        order == pa \o pb \o Ascending(Addrs \ (Range(pa) \cup Range(pb)))
        to(p) == IF p = NullAddr THEN NullAddr
                 ELSE CHOOSE i \in Addrs : order[i] = p
    IN  [mem |-> [i \in Addrs |->
                    IF h[order[i]] = Free THEN Free
                    ELSE [h[order[i]] EXCEPT !.left = to(h[order[i]].left),
                                             !.right = to(h[order[i]].right)]],
         roots |-> [t \in Trees |-> to(rts[t])],
         href |-> to(hr)]

\* The heap, the two roots and the caller's reference after a call
HeapAfter(h, rts, hr) ==
    LET s == Relocate(h, rts, hr)
    IN  /\ mem' = s.mem
        /\ roots' = s.roots
        /\ href' = s.href

\* The object t exists
Alive(t) == t = "a" \/ copied

HCalled(name, t, k, v) ==
    /\ op' = name
    /\ obj' = t
    /\ arg_key' = k
    /\ arg_info' = v
    /\ before' = size_in(mem, roots[t])

\* t.insert(k, v)
HInsert(t, k, v) ==
    /\ Idle
    /\ Alive(t)
    /\ LET r == insert_in(mem, roots[t], k, v)
       IN  HeapAfter(r.mem, [roots EXCEPT ![t] = r.p], NullAddr)
    /\ HCalled("insert", t, k, v)
    /\ SetMap(t, [MapOf(t) EXCEPT ![k] = v])
    /\ UNCHANGED <<copied, tree_vars>>

\* t.remove(k)
HRemove(t, k) ==
    /\ Idle
    /\ Alive(t)
    /\ LET r == remove_in(mem, roots[t], k)
       IN  HeapAfter(r.mem, [roots EXCEPT ![t] = r.p], NullAddr)
    /\ HCalled("remove", t, k, 0)
    /\ SetMap(t, [MapOf(t) EXCEPT ![k] = NoInfo])
    /\ UNCHANGED <<copied, tree_vars>>

\* Info& r = t[k];
HIndex(t, k) ==
    /\ Idle
    /\ Alive(t)
    /\ LET r == index_mut_in(mem, roots[t], k)
       IN  HeapAfter(r.mem, [roots EXCEPT ![t] = r.p], r.n)
    /\ HCalled("index", t, k, 0)
    /\ SetMap(t, IF MapOf(t)[k] = NoInfo THEN [MapOf(t) EXCEPT ![k] = DefaultInfo]
                                          ELSE MapOf(t))
    /\ UNCHANGED <<copied, tree_vars>>

\* r = v;  through the reference the preceding t[k] returned
HAssign(v) ==
    /\ href # NullAddr
    /\ mem' = [mem EXCEPT ![href].info = v]
    /\ op' = "assign"
    /\ arg_info' = v
    /\ before' = size_in(mem, roots[obj])
    /\ SetMap(obj, [MapOf(obj) EXCEPT ![arg_key] = v])
    /\ UNCHANGED <<roots, obj, href, arg_key, copied, tree_vars>>

\* t.clear()
HClear(t) ==
    /\ Idle
    /\ Alive(t)
    /\ LET r == public_clear_in(mem, roots[t])
       IN  HeapAfter(r.mem, [roots EXCEPT ![t] = r.p], NullAddr)
    /\ HCalled("clear", t, 0, 0)
    /\ SetMap(t, EmptyMap)
    /\ UNCHANGED <<copied, tree_vars>>

\* { avl_tree b(a); ... }: the b of the scope before, if there was one, is
\* destroyed, a new b is constructed as a copy of a
HCopyConstruct ==
    /\ Idle
    /\ LET r == copy_construct_in(IF copied THEN destructor_in(mem, roots["b"]) ELSE mem,
                                  roots["a"])
       IN  HeapAfter(r.mem, [roots EXCEPT !["b"] = r.p], NullAddr)
    /\ HCalled("copy", "b", 0, 0)
    /\ other_map' = map
    /\ copied' = TRUE
    /\ UNCHANGED <<map, tree_vars>>

\* t = s;  for the two trees in either order, and for t = t
HAssignTree(t, s) ==
    /\ Idle
    /\ Alive(t) /\ Alive(s)
    /\ LET r == operator_assign_in(mem, roots[t], roots[s], t = s)
       IN  HeapAfter(r.mem, [roots EXCEPT ![t] = r.p], NullAddr)
    /\ HCalled(IF t = s THEN "assign_self" ELSE "assign_tree", t, 0, 0)
    /\ SetMap(t, MapOf(s))
    /\ UNCHANGED <<copied, tree_vars>>

\* The caller is done with what the last call returned.
HEndScope ==
    /\ op # "idle"
    /\ op' = "idle"
    /\ obj' = "a"
    /\ arg_key' = 0
    /\ arg_info' = 0
    /\ href' = NullAddr
    /\ before' = 0
    /\ UNCHANGED <<mem, roots, map, other_map, copied, tree_vars>>

NextHeap ==
    \/ \E t \in Trees, k \in CopyKeys, v \in TwoInfos : HInsert(t, k, v)
    \/ \E t \in Trees, k \in CopyKeys : HRemove(t, k)
    \/ \E t \in Trees, k \in CopyKeys : HIndex(t, k)
    \/ \E v \in TwoInfos : HAssign(v)
    \/ \E t \in Trees : HClear(t)
    \/ HCopyConstruct
    \/ \E t \in Trees, s \in Trees : HAssignTree(t, s)
    \/ HEndScope

SpecHeap == Init /\ [][NextHeap]_vars

\* -------------------------------------------------------- three sequences
\* seq, seq1 and seq2 are the three Sequence<int, int> objects of the split
\* tests.  The caller fills seq with push_back and insert_at and splits it
\* into seq1 and seq2, which keep what earlier splits moved there; it
\* catches what a split throws and goes on.  The three hold MaxSeqLen
\* elements together at most.
SeqKeys == {1, 2}

\* The elements the caller puts into seq: two keys, each with an info of its
\* own (no function of Sequence or split computes with a key or an info;
\* split_key compares keys for equality)
SeqElems == {SeqNode(1, DefaultInfo), SeqNode(2, MaxInfo)}

\* Arguments that are positions and counts: from one below the first valid
\* value to one above the size of seq
Positions == -1..(seq_size(seq) + 1)

\* The block lengths the caller passes
Lens == -1..2

\* The variables of the trees, which no call on a Sequence or a ring touches
avl_vars == <<root, other, ref, prev, arg_key, arg_info, out, map, other_map,
              heap_vars, sel_vars, run_vars, vec>>

SeqCalled(name, a) ==
    /\ op' = name
    /\ args' = a
    /\ old' = [seq |-> seq, seq1 |-> seq1, seq2 |-> seq2]

\* seq.push_back(k, i);
SeqPushBack(k, i) ==
    /\ Idle
    /\ seq_size(seq) + seq_size(seq1) + seq_size(seq2) < MaxSeqLen
    /\ seq' = seq_push_back(seq, k, i)
    /\ UNCHANGED <<op, args, old, ret, thrown, crashed, seq1, seq2,
                   ring_vars, join_vars, avl_vars>>

\* bool ok = seq.insert_at(k, i, position);
SeqInsertAt(k, i, position) ==
    /\ Idle
    /\ seq_size(seq) + seq_size(seq1) + seq_size(seq2) < MaxSeqLen
    /\ LET r == insert_at(seq, k, i, position)
       IN  /\ seq' = r.seq
           /\ ret' = r.ok
    /\ SeqCalled("insert_at", [key |-> k, info |-> i, position |-> position])
    /\ UNCHANGED <<thrown, crashed, seq1, seq2, ring_vars, join_vars, avl_vars>>

SplitReturned(r) ==
    /\ seq' = r.seq
    /\ seq1' = r.seq1
    /\ seq2' = r.seq2
    /\ thrown' = r.thrown

\* try { split_pos(seq, start_pos, len1, len2, count, seq1, seq2); }
\* catch (const std::invalid_argument&) {}
SplitPos(start_pos, len1, len2, count) ==
    /\ Idle
    /\ SplitReturned(split_pos(seq, start_pos, len1, len2, count, seq1, seq2))
    /\ SeqCalled("split_pos", [start_pos |-> start_pos, len1 |-> len1, len2 |-> len2,
                               count |-> count])
    /\ UNCHANGED <<ret, crashed, ring_vars, join_vars, avl_vars>>

\* try { split_key(seq, start_key, start_occ, len1, len2, count, seq1, seq2); }
\* catch (const std::invalid_argument&) {}
SplitKey(start_key, start_occ, len1, len2, count) ==
    /\ Idle
    /\ SplitReturned(split_key(seq, start_key, start_occ, len1, len2, count, seq1, seq2))
    /\ SeqCalled("split_key", [start_key |-> start_key, start_occ |-> start_occ,
                               len1 |-> len1, len2 |-> len2, count |-> count])
    /\ UNCHANGED <<ret, crashed, ring_vars, join_vars, avl_vars>>

\* The caller is done with what the last call returned or threw.
SeqEndScope ==
    /\ op # "idle"
    /\ op' = "idle"
    /\ args' = <<>>
    /\ old' = <<>>
    /\ ret' = FALSE
    /\ thrown' = "none"
    /\ UNCHANGED <<crashed, seq_vars, ring_vars, join_vars, avl_vars>>

NextSeq ==
    \/ \E e \in SeqElems : SeqPushBack(e.key, e.info)
    \/ \E e \in SeqElems, position \in Positions : SeqInsertAt(e.key, e.info, position)
    \/ \E start_pos \in Positions, len1 \in Lens, len2 \in Lens, count \in Positions :
          SplitPos(start_pos, len1, len2, count)
    \/ \E start_key \in SeqKeys, start_occ \in Positions, len1 \in Lens, len2 \in Lens,
          count \in Positions :
          SplitKey(start_key, start_occ, len1, len2, count)
    \/ SeqEndScope

SpecSeq == Init /\ [][NextSeq]_vars

\* ------------------------------------------------------- join and shuffle
\* first and second are two rings the caller has filled with push_back, as
\* the join and shuffle tests do: up to MaxJoinLen elements each, with keys
\* out of JoinKeys (join and shuffle compare keys for equality only).  An
\* element of first has its key as info, one of second ten times its key, so
\* that a sum shows both of its terms.
MaxJoinLen == 2
JoinKeys == {1, 2, 3}

\* bi_ring<int, int> r; r.push_back(k, i); ... : the ring of the pairs of v
RECURSIVE RingOf(_)
RingOf(v) ==
    IF v = <<>> THEN EmptyRing
    ELSE ring_push_back(RingOf(SubSeq(v, 1, Len(v) - 1)), v[Len(v)][1], v[Len(v)][2]).ring

JoinRings(scale) ==
    {RingOf(v) : v \in UNION {[1..n -> {<<k, scale * k>> : k \in JoinKeys}] :
                              n \in 0..MaxJoinLen}}

\* The counts and repetitions the caller passes to shuffle
ShuffleCounts == 0..2

InitJoin ==
    /\ InitTrees
    /\ InitCalls
    /\ first \in JoinRings(1)
    /\ second \in JoinRings(10)
    /\ result = EmptyRing

\* bi_ring<int, int> result = join(first, second);
Join ==
    /\ Idle
    /\ result' = join(first, second)
    /\ op' = "join"
    /\ UNCHANGED <<first, second, args, old, ret, thrown, crashed, seq_vars, ring_vars,
                   avl_vars>>

\* bi_ring<int, int> result = shuffle(first, fcnt, second, scnt, reps);
Shuffle(fcnt, scnt, reps) ==
    /\ Idle
    /\ result' = shuffle(first, fcnt, second, scnt, reps)
    /\ op' = "shuffle"
    /\ args' = [fcnt |-> fcnt, scnt |-> scnt, reps |-> reps]
    /\ UNCHANGED <<first, second, old, ret, thrown, crashed, seq_vars, ring_vars, avl_vars>>

NextJoin ==
    \/ Join
    \/ \E fcnt \in ShuffleCounts, scnt \in ShuffleCounts, reps \in ShuffleCounts :
          Shuffle(fcnt, scnt, reps)

SpecJoin == InitJoin /\ [][NextJoin]_vars

\* ------------------------------------------------------------ one bi_ring
\* ring is a bi_ring<int, int> the caller pushes to, pops from, inserts into
\* and erases from.  The iterator it passes to insert and erase is begin()
\* moved by ++ or -- a number of times, as in testInsert and eraseTest, and
\* it may have taken it before the last modifications of the ring.  The ring
\* holds MaxRing elements at most and takes MaxVersion changes at most.
RingElems == {<<1, 10>>, <<2, 20>>, <<3, 30>>}

\* How often the caller moves begin(): forward (++) for a positive number,
\* backward (--) for a negative one, never once around
Steps ==
    LET n == Len(toVector(ring))
    IN  IF n = 0 THEN {0} ELSE (1 - n)..(n - 1)

\* auto it = r.begin(); ++it; ... / --it; ...
RECURSIVE Advanced(_, _, _)
Advanced(r, i, steps) ==
    IF steps > 0 THEN Advanced(r, increment_iterator(r, i), steps - 1)
    ELSE IF steps < 0 THEN Advanced(r, decrement_iterator(r, i), steps + 1)
    ELSE i

\* Addresses mean nothing to the program, so the cells of a ring are renamed
\* after every call by a permutation: the nodes met from any along next,
\* then every other node and every free cell in ascending order.  Pointers,
\* those of the iterators and those into freed cells included, follow.
RECURSIVE RingOrder(_, _, _)
RingOrder(cells, current, seen) ==
    IF current \notin DOMAIN cells \/ current \in Range(seen) THEN seen
    ELSE IF cells[current] = Free THEN seen
    ELSE RingOrder(cells, cells[current].next, Append(seen, current))

Renumber(r, its) ==
    LET met == RingOrder(r.cells, r.any, <<>>)
        order == met \o Ascending(DOMAIN r.cells \ Range(met))
        to(p) == IF p \in DOMAIN r.cells
                   THEN CHOOSE q \in 1..Len(order) : order[q] = p
                   ELSE p
    IN  [ring |-> [cells |-> [q \in 1..Len(order) |->
                                 LET c == r.cells[order[q]]
                                 IN  IF c = Free THEN Free
                                     ELSE [c EXCEPT !.next = to(c.next), !.prev = to(c.prev)]],
                   any |-> to(r.any),
                   version |-> r.version],
         its |-> [j \in 1..Len(its) |-> iterator(to(its[j].node), its[j].version)]]

\* The state after a call that was passed position and gave res
RingAfter(res, position) ==
    LET n == Renumber(res.ring, <<position, res.ret>>)
    IN  /\ ring' = n.ring
        /\ it' = n.its[1]
        /\ returned' = n.its[2]
        /\ thrown' = res.thrown
        /\ crashed' = res.crashed

RingCalled(name, a) ==
    /\ Idle
    /\ ~crashed
    /\ ring.version < MaxVersion
    /\ op' = name
    /\ args' = a
    /\ old' = [ring |-> ring]
    /\ UNCHANGED <<ret, seq_vars, join_vars, avl_vars>>

\* r.push_front(key, info);
RPushFront(key, info) ==
    /\ Len(toVector(ring)) < MaxRing
    /\ RingCalled("ring_push_front", [key |-> key, info |-> info])
    /\ RingAfter(ring_push_front(ring, key, info), iterator(NullAddr, 0))

\* r.push_back(key, info);
RPushBack(key, info) ==
    /\ Len(toVector(ring)) < MaxRing
    /\ RingCalled("ring_push_back", [key |-> key, info |-> info])
    /\ RingAfter(ring_push_back(ring, key, info), iterator(NullAddr, 0))

\* r.pop_front();
RPopFront ==
    /\ RingCalled("ring_pop_front", <<>>)
    /\ RingAfter(ring_pop_front(ring), iterator(NullAddr, 0))

\* r.pop_back();
RPopBack ==
    /\ RingCalled("ring_pop_back", <<>>)
    /\ RingAfter(ring_pop_back(ring), iterator(NullAddr, 0))

\* The iterator the caller passes: begin() moved steps times, taken since
\* modifications of the ring ago.  Its node is a node of the ring as it is
\* now (a modification elsewhere in the ring leaves the node where it was);
\* its version is the one the ring had then.
Held(steps, since) ==
    iterator(Advanced(ring, begin(ring), steps).node, ring.version - since)

\* How long ago the iterator was taken: MaxStale modifications at most, and
\* not before the ring was made
Stale == 0..(IF ring.version < MaxStale THEN ring.version ELSE MaxStale)

\* auto it = r.begin(); <steps>; <since modifications>;
\* try { r.insert(it, key, info); } catch (...) {}
RInsert(since, steps, key, info) ==
    /\ Len(toVector(ring)) < MaxRing
    /\ RingCalled("ring_insert",
                  [since |-> since, steps |-> steps, key |-> key, info |-> info])
    /\ LET position == Held(steps, since)
       IN  RingAfter(ring_insert(ring, position, key, info), position)

\* auto it = r.begin(); <steps>; <since modifications>;
\* try { r.erase(it); } catch (...) {}
RErase(since, steps) ==
    /\ RingCalled("ring_erase", [since |-> since, steps |-> steps])
    /\ LET position == Held(steps, since)
       IN  RingAfter(ring_erase(ring, position), position)

\* The caller is done with the iterators of the last call.
REndScope ==
    /\ op # "idle"
    /\ ~crashed
    /\ op' = "idle"
    /\ args' = <<>>
    /\ old' = <<>>
    /\ it' = iterator(NullAddr, 0)
    /\ returned' = iterator(NullAddr, 0)
    /\ thrown' = "none"
    /\ UNCHANGED <<ring, crashed, ret, seq_vars, join_vars, avl_vars>>

NextRing ==
    \/ \E e \in RingElems : RPushFront(e[1], e[2])
    \/ \E e \in RingElems : RPushBack(e[1], e[2])
    \/ RPopFront
    \/ RPopBack
    \/ \E since \in Stale, steps \in Steps, e \in RingElems : RInsert(since, steps, e[1], e[2])
    \/ \E since \in Stale, steps \in Steps : RErase(since, steps)
    \/ REndScope

SpecRing == Init /\ [][NextRing]_vars

\* ------------------------------------------------------------ properties
\* What a tree holds, read off the node structure alone (no key comparison).
RECURSIVE Subtrees(_)
Subtrees(n) ==
    IF n = nullptr THEN {} ELSE {n} \cup Subtrees(n.left) \cup Subtrees(n.right)

RECURSIVE KeysOf(_)
KeysOf(n) ==
    IF n = nullptr THEN {} ELSE KeysOf(n.left) \cup {n.key} \cup KeysOf(n.right)

RECURSIVE NodeCount(_)
NodeCount(n) ==
    IF n = nullptr THEN 0 ELSE NodeCount(n.left) + 1 + NodeCount(n.right)

RECURSIVE TrueHeight(_)
TrueHeight(n) ==
    IF n = nullptr THEN 0
    ELSE 1 + (IF TrueHeight(n.left) < TrueHeight(n.right)
                THEN TrueHeight(n.right) ELSE TrueHeight(n.left))

\* The set of (key, info) pairs stored in the nodes of a tree
PairsOf(n) == {<<s.key, s.info>> : s \in Subtrees(n)}

\* The infos stored under key k
InfosAt(n, k) == {s.info : s \in {t \in Subtrees(n) : t.key = k}}

IsBST(r) ==
    \A s \in Subtrees(r) :
        /\ \A k \in KeysOf(s.left) : k < s.key
        /\ \A k \in KeysOf(s.right) : k > s.key

IsAVL(r) ==
    \A s \in Subtrees(r) :
        TrueHeight(s.left) - TrueHeight(s.right) \in {-1, 0, 1}

HeightsCached(r) ==
    \A s \in Subtrees(r) :
        /\ s.height = 1 + (IF (IF s.left = nullptr THEN 0 ELSE s.left.height)
                              < (IF s.right = nullptr THEN 0 ELSE s.right.height)
                             THEN s.right.height
                             ELSE (IF s.left = nullptr THEN 0 ELSE s.left.height))
        /\ s.height = TrueHeight(s)

StrictlyAscending(v) ==
    \A i \in 1..(Len(v) - 1) : v[i][1] < v[i + 1][1]

\* The entries of a reference map from key k upwards, in ascending key order
RECURSIVE MapVector(_, _)
MapVector(m, k) ==
    IF k > MaxKey THEN <<>>
    ELSE (IF m[k] # NoInfo THEN <<<<k, m[k]>>>> ELSE <<>>) \o MapVector(m, k + 1)

\* ------------------------------------------- the node functions of a tree
\* The private functions rebalance, rotate_right, rotate_left, insert,
\* remove and to_vector, each called once on a subtree that is handed to
\* it.  The subtrees are all the search trees of at most MaxNodes nodes
\* that are balanced and have their heights cached, and all the nodes over
\* two such subtrees whose heights differ by two at most, with any cached
\* height of their own: what insert and remove hand to rebalance.  The keys
\* of a subtree are consecutive even numbers, so that a key between two of
\* them can be inserted; neighbouring keys have different infos.
MaxNodes == 6
MaxCalls == 2

RankKey(r) == 2 * r
RankInfo(r) == r % (MaxInfo + 1)
NodeKeys == 1..(RankKey(MaxNodes) + 1)

\* The balanced search trees of height h that hold the ranks lo..hi
RECURSIVE AVLTrees(_, _, _)
AVLTrees(lo, hi, h) ==
    IF lo > hi THEN (IF h = 0 THEN {nullptr} ELSE {})
    ELSE IF h = 0 THEN {}
    ELSE UNION {
           UNION {
             {[key |-> RankKey(r), info |-> RankInfo(r), left |-> l, right |-> rt,
               height |-> h] : l \in AVLTrees(lo, r - 1, hs[1]),
                               rt \in AVLTrees(r + 1, hi, hs[2])}
             : hs \in {<<h - 1, h - 1>>, <<h - 1, h - 2>>, <<h - 2, h - 1>>} \cap (Nat \X Nat)}
           : r \in lo..hi}

\* The nodes over two balanced subtrees whose heights differ by d at most,
\* with a cached height that need not be theirs
NodesOver(lo, hi, d) ==
    UNION {
      UNION {
        {[key |-> RankKey(r), info |-> RankInfo(r), left |-> l, right |-> rt,
          height |-> c] : l \in AVLTrees(lo, r - 1, hs[1]),
                          rt \in AVLTrees(r + 1, hi, hs[2]),
                          c \in 1..(max(hs[1], hs[2]) + 2)}
        : hs \in {x \in (0..MaxNodes) \X (0..MaxNodes) : x[1] - x[2] \in (-d)..d}}
      : r \in lo..hi}

Subjects ==
    {nullptr} \cup UNION {NodesOver(lo, hi, 2) : lo \in 1..MaxNodes, hi \in 1..MaxNodes}

InitNode ==
    /\ root \in Subjects
    /\ other = nullptr
    /\ ref = NullPtr
    /\ prev = nullptr
    /\ op = "idle"
    /\ arg_key = 0
    /\ arg_info = 0
    /\ ret = FALSE
    /\ out = DefaultInfo
    /\ map = EmptyMap
    /\ other_map = EmptyMap
    /\ mem = [p \in Addrs |-> Free]
    /\ roots = [a |-> NullAddr, b |-> NullAddr]
    /\ obj = "a"
    /\ href = NullAddr
    /\ copied = FALSE
    /\ before = 0
    /\ cnt = 0
    /\ sel = <<>>
    /\ input = <<>>
    /\ script = <<>>
    /\ pc = 0
    /\ InitLists

\* The subtree satisfies the invariants of the tree
Settled(n) == IsBST(n) /\ IsAVL(n) /\ HeightsCached(n)

node_rest == <<other, ref, ret, out, map, other_map, heap_vars, sel_vars, run_vars,
               seq_vars, ring_vars, join_vars, args, thrown, crashed>>

NodeCalled(name, k, v) ==
    /\ Idle
    /\ Called(name, k, v)
    /\ UNCHANGED <<old, vec, node_rest>>

\* root = rebalance(root);
NRebalance ==
    /\ root # nullptr
    /\ NodeCalled("rebalance", 0, 0)
    /\ root' = rebalance(root)

\* root = rotate_right(root);
NRotateRight ==
    /\ root # nullptr
    /\ root.left # nullptr
    /\ NodeCalled("rotate_right", 0, 0)
    /\ root' = rotate_right(root)

\* root = rotate_left(root);
NRotateLeft ==
    /\ root # nullptr
    /\ root.right # nullptr
    /\ NodeCalled("rotate_left", 0, 0)
    /\ root' = rotate_left(root)

\* root = insert(root, k, v);
NInsert(k, v) ==
    /\ Settled(root)
    /\ NodeCalled("insert", k, v)
    /\ root' = insert(root, k, v)

\* root = remove(root, k);
NRemove(k) ==
    /\ Settled(root)
    /\ NodeCalled("remove", k, 0)
    /\ root' = remove(root, k)

\* to_vector(root, vec);  on the vector of the to_vector calls before it,
\* MaxCalls times at most
NToVector ==
    /\ op \in {"idle", "to_vector"}
    /\ Len(vec) < MaxCalls * NodeCount(root) \/ (root = nullptr /\ Idle)
    /\ vec' = to_vector(root, vec)
    /\ old' = [vec |-> vec]
    /\ Called("to_vector", 0, 0)
    /\ UNCHANGED <<root, node_rest>>

NextNode ==
    \/ NRebalance
    \/ NRotateRight
    \/ NRotateLeft
    \/ \E k \in NodeKeys, v \in Infos : NInsert(k, v)
    \/ \E k \in NodeKeys : NRemove(k)
    \/ NToVector

SpecNode == InitNode /\ [][NextNode]_vars

\* C1: after any sequence of insert, remove and mutable operator[] calls on
\* a tree that starts empty, every node's left subtree holds only smaller
\* keys and its right subtree only larger keys, and to_vector into an empty
\* vector yields strictly ascending keys.
C1_BSTOrder ==
    /\ IsBST(root)
    /\ StrictlyAscending(to_vector(root, <<>>))

\* A removal of a node with two children from a tree of five nodes.
C1_Witness ==
    /\ op = "remove"
    /\ NodeCount(prev) = 5
    /\ \E s \in Subtrees(prev) :
          s.key = arg_key /\ s.left # nullptr /\ s.right # nullptr
    /\ NodeCount(root) = 4

\* C2: after any sequence of insert, remove and mutable operator[] calls on
\* a tree that starts empty, the true heights of the left and right subtree
\* of every node differ by at most 1.
C2_AVLBalance == IsAVL(root)

\* A removal after which the root had to be rotated: the path from the old
\* root is two levels deeper on the side that was not removed from.
C2_Witness ==
    /\ op = "remove"
    /\ arg_key \in KeysOf(prev)
    /\ prev.key # arg_key
    /\ LET cut == IF arg_key < prev.key
                    THEN [prev EXCEPT !.left = remove(prev.left, arg_key)]
                    ELSE [prev EXCEPT !.right = remove(prev.right, arg_key)]
       IN  TrueHeight(cut.left) - TrueHeight(cut.right) \in {-2, 2}

\* C3: after every public operation (insert, remove, operator[], clear,
\* copy, assignment) the cached height of every node of either tree equals
\* 1 + max(cached height of left child, cached height of right child), an
\* empty subtree counting 0, and equals the node's true height.
C3_CachedHeights ==
    /\ HeightsCached(root)
    /\ HeightsCached(other)

\* a has just been assigned a three-node copy of b over earlier contents.
C3_Witness ==
    /\ op = "assign_from"
    /\ prev # nullptr
    /\ prev # root
    /\ NodeCount(root) = 3
    /\ root.height = 2

\* C4: after any sequence of insert(k,v), remove(k) and operator[](k)=v
\* calls, to_vector into an empty vector is exactly the list of the
\* reference map's (key, info) pairs in ascending key order.
C4_MatchesReferenceMap ==
    to_vector(root, <<>>) = MapVector(map, 1)

\* An assignment through operator[] has just changed an info in a tree of
\* at least four entries.
C4_Witness ==
    /\ op = "assign"
    /\ prev # root
    /\ Len(to_vector(root, <<>>)) >= 4

\* C5: inserting a key that is already in the tree creates no second node
\* for it: size() is unchanged and the key's info is the value of the most
\* recent insert.
C5_InsertExisting ==
    (op = "insert" /\ arg_key \in KeysOf(prev)) =>
        /\ size(root) = size(prev)
        /\ NodeCount(root) = NodeCount(prev)
        /\ InfosAt(root, arg_key) = {arg_info}
        /\ Cardinality({s \in Subtrees(root) : s.key = arg_key}) = 1

\* A present key below the root was inserted again with another value.
C5_Witness ==
    /\ op = "insert"
    /\ arg_key \in KeysOf(prev)
    /\ InfosAt(prev, arg_key) # {arg_info}
    /\ prev.key # arg_key

\* C6: for a key k present in the tree, after remove(k) search(k) returns
\* false, size() has dropped by exactly one, and every other key that was
\* present is still found by search with its info unchanged.
C6_RemovePresent ==
    (op = "remove" /\ arg_key \in KeysOf(prev)) =>
        /\ ~search(root, arg_key, DefaultInfo).found
        /\ size(root) = size(prev) - 1
        /\ \A k \in KeysOf(prev) \ {arg_key} :
              /\ search(root, k, DefaultInfo).found
              /\ {search(root, k, DefaultInfo).info} = InfosAt(prev, k)

\* The root of a five-node tree was removed.
C6_Witness ==
    /\ op = "remove"
    /\ NodeCount(prev) = 5
    /\ prev.key = arg_key

\* C7: remove(k) for a key that is not in the tree, the empty tree
\* included, leaves the tree unchanged: same keys, infos, shape and cached
\* heights.
C7_RemoveAbsent ==
    (op = "remove" /\ arg_key \notin KeysOf(prev)) => root = prev

\* An absent key was removed from a tree of height 3.
C7_Witness ==
    /\ op = "remove"
    /\ arg_key \notin KeysOf(prev)
    /\ TrueHeight(prev) = 3

\* C8: search(k, out) returns true exactly when k is a key of the tree and
\* then sets out to the info stored for k; it leaves the tree unchanged and
\* never inserts k.
C8_Search ==
    (op = "search") =>
        /\ ret <=> (arg_key \in KeysOf(prev))
        /\ ret => {out} = InfosAt(prev, arg_key)
        /\ root = prev
        /\ KeysOf(root) = KeysOf(prev)

\* A key two levels below the root was found, its info differing from what
\* the caller's variable held.
C8_Witness ==
    /\ op = "search"
    /\ ret
    /\ out # arg_info
    /\ TrueHeight(root) = 3
    /\ arg_key \notin {root.key}
    /\ (root.left # nullptr => root.left.key # arg_key)
    /\ (root.right # nullptr => root.right.key # arg_key)

\* C9: the mutable operator[](k) on a tree that lacks k inserts k with a
\* default info (size grows by one, BST and AVL invariants kept, all other
\* entries kept) and returns a reference to that info; on a tree that has k
\* it changes nothing and returns a reference to the existing info; an
\* assignment through the reference is what search(k) then reports.
C9_IndexMutable ==
    /\ (op = "index") =>
          /\ ref # NullPtr
          /\ deref(root, ref).key = arg_key
          /\ (arg_key \notin KeysOf(prev)) =>
                /\ size(root) = size(prev) + 1
                /\ deref(root, ref).info = DefaultInfo
                /\ PairsOf(root) = PairsOf(prev) \cup {<<arg_key, DefaultInfo>>}
                /\ IsBST(root) /\ IsAVL(root)
          /\ (arg_key \in KeysOf(prev)) => root = prev
    /\ (op = "assign") =>
          /\ search(root, arg_key, DefaultInfo).found
          /\ search(root, arg_key, DefaultInfo).info = arg_info
          /\ PairsOf(root) = {p \in PairsOf(prev) : p[1] # arg_key}
                               \cup {<<arg_key, arg_info>>}

\* operator[] inserted an absent key with a rotation, so that the new node
\* is not where a plain leaf insertion would have put it.
C9_Witness ==
    /\ op = "index"
    /\ arg_key \notin KeysOf(prev)
    /\ NodeCount(root) >= 3
    /\ root.key # prev.key

\* C10: the read-only operator[](k) returns the stored info when k is
\* present and a default-valued Info when k is absent, and neither inserts
\* k nor changes the tree.
C10_IndexConst ==
    (op = "const_index") =>
        /\ (arg_key \in KeysOf(prev)) => {out} = InfosAt(prev, arg_key)
        /\ (arg_key \notin KeysOf(prev)) => out = DefaultInfo
        /\ root = prev
        /\ arg_key \in KeysOf(root) <=> arg_key \in KeysOf(prev)

\* An absent key was read from a tree none of whose infos is the default.
C10_Witness ==
    /\ op = "const_index"
    /\ arg_key \notin KeysOf(root)
    /\ NodeCount(root) >= 2
    /\ \A s \in Subtrees(root) : s.info # DefaultInfo
\* Every node* a tree reaches from its root names a live node
RECURSIVE NoDangling(_, _)
NoDangling(h, n) ==
    \/ n = NullAddr
    \/ /\ h[n] # Free
       /\ NoDangling(h, h[n].left)
       /\ NoDangling(h, h[n].right)

\* What a caller can see of a tree: its to_vector and, for every key, what
\* search returns and writes
Observed(h, r) ==
    [vec |-> to_vector_in(h, r, <<>>),
     found |-> [k \in CopyKeys |-> search_in(h, r, k, NoInfo)]]

Updates == {"insert", "remove", "index", "assign"}

\* C11: when one tree is made a copy of the other (copy constructor or
\* operator=) the two hold the same (key, info) pairs in the same order;
\* every node either tree reaches stays live; and a later insert, remove or
\* operator[] update on one tree leaves the to_vector result and the search
\* results of the other tree as they were, whichever of the two is updated.
C11_Step ==
    /\ \A t \in Trees : NoDangling(mem', roots'[t])
    /\ op' \in {"copy", "assign_tree"}
         => to_vector_in(mem', roots'["b"], <<>>) = to_vector_in(mem', roots'["a"], <<>>)
    /\ \A t \in Trees :
         (op' \in Updates /\ obj' # t)
            => Observed(mem', roots'[t]) = Observed(mem, roots[t])

C11_CopyIndependence == [][C11_Step]_vars

C11_Witness ==
    /\ copied
    /\ op \in {"remove", "assign"}
    /\ obj = "a"
    /\ Len(to_vector_in(mem, roots["b"], <<>>)) = MaxCopyKey
    /\ to_vector_in(mem, roots["a"], <<>>) # <<>>
    /\ to_vector_in(mem, roots["a"], <<>>) # to_vector_in(mem, roots["b"], <<>>)

\* The nodes a tree reaches
RECURSIVE NodesIn(_, _)
NodesIn(h, n) ==
    IF n = NullAddr THEN {}
    ELSE {n} \cup NodesIn(h, h[n].left) \cup NodesIn(h, h[n].right)

\* C12: after clear() on a tree, empty or not, the tree is empty: empty() is
\* true, size() is 0, to_vector yields nothing, and its root is the nullptr
\* of a freshly constructed tree, with every node it held released (the
\* only live nodes are those of the other tree).  From then on, as from
\* construction, each tree reaches only live nodes and holds exactly what
\* its reference map holds, the map that restarts empty at clear() and
\* follows the later inserts and removes.
C12_Clear ==
    /\ op = "clear" =>
         /\ empty_in(roots[obj])
         /\ size_in(mem, roots[obj]) = 0
         /\ to_vector_in(mem, roots[obj], <<>>) = <<>>
         /\ \A t \in Trees \ {obj} :
              /\ NoDangling(mem, roots[t])
              /\ Addrs \ FreeCells(mem) = NodesIn(mem, roots[t])
    /\ \A t \in Trees :
         /\ NoDangling(mem, roots[t])
         /\ to_vector_in(mem, roots[t], <<>>) = MapVector(MapOf(t), 1)

C12_Witness ==
    /\ op = "clear"
    /\ before = MaxCopyKey
    /\ roots[obj] = NullAddr

\* C13: in every reachable state size() is the number of distinct keys the
\* nodes of the tree hold, which is the number of entries of the reference
\* map, and empty() is true exactly when size() is 0; a newly constructed
\* tree has size 0 and is empty.
C13_SizeEmpty ==
    /\ size(root) = Cardinality(KeysOf(root))
    /\ size(root) = Cardinality({k \in Keys : map[k] # NoInfo})
    /\ empty(root) <=> (size(root) = 0)
    /\ size(nullptr) = 0
    /\ empty(nullptr)

C13_Witness ==
    /\ op = "insert"
    /\ size(prev) = MaxKey
    /\ size(root) = MaxKey
    /\ ~empty(root)
    /\ prev # root

\* The entries of vec ordered by descending info, entries of equal info in
\* ascending key order
RECURSIVE ByInfoThenKey(_)
ByInfoThenKey(S) ==
    IF S = {} THEN <<>>
    ELSE LET e == CHOOSE x \in S : \A y \in S :
                      \/ x[2] > y[2]
                      \/ x[2] = y[2] /\ x[1] <= y[1]
         IN  <<e>> \o ByInfoThenKey(S \ {e})

\* C14: maxinfo_selector(tree, cnt) returns the cnt entries with the largest
\* infos in descending info order, entries of equal info in ascending key
\* order, so that of the entries tied for the last places those with the
\* smallest keys are returned: the result is the first cnt elements (all of
\* them when there are fewer) of the tree's entries ordered by descending
\* info and, within one info, ascending key.
C14_SelectorOrder ==
    op = "maxinfo_selector" =>
        LET all == ByInfoThenKey(PairsOf(root))
        IN  sel = (IF cnt < Len(all) THEN SubSeq(all, 1, cnt) ELSE all)

\* A call that had to choose among entries of equal info
C14_Witness ==
    /\ op = "maxinfo_selector"
    /\ cnt = 2
    /\ \E x \in PairsOf(root), y \in PairsOf(root), z \in PairsOf(root) :
         x[1] < y[1] /\ y[1] < z[1] /\ x[2] = y[2] /\ y[2] = z[2]

\* C15: maxinfo_selector(tree, cnt) returns exactly min(cnt, size()) entries,
\* each an entry of the tree and no entry twice: every entry when cnt is at
\* least the size, none when cnt is 0; and the tree is as it was.
C15_SelectorCount ==
    op = "maxinfo_selector" =>
        /\ Len(sel) = (IF cnt < size(prev) THEN cnt ELSE size(prev))
        /\ Range(sel) \subseteq PairsOf(prev)
        /\ Cardinality(Range(sel)) = Len(sel)
        /\ cnt >= size(prev) => Range(sel) = PairsOf(prev)
        /\ cnt = 0 => sel = <<>>
        /\ root = prev

C15_Witness ==
    /\ op = "maxinfo_selector"
    /\ cnt > size(root)
    /\ Len(sel) = MaxSelKey

\* The tokens of a stream, as the places they occupy: the longest stretches
\* of characters that are not whitespace
TokenSpans(s) ==
    {sp \in (1..Len(s)) \X (1..Len(s)) :
        /\ sp[1] <= sp[2]
        /\ \A i \in sp[1]..sp[2] : ~isspace(s[i])
        /\ sp[1] = 1 \/ isspace(s[sp[1] - 1])
        /\ sp[2] = Len(s) \/ isspace(s[sp[2] + 1])}

\* The cleaned form of a token: its alphanumeric characters, lower-cased
CleanedForm(tok) ==
    LET kept == SelectSeq(tok, isalnum)
    IN  [i \in 1..Len(kept) |-> tolower(kept[i])]

FormAt(s, sp) == CleanedForm(SubSeq(s, sp[1], sp[2]))

\* C16: the tree count_words returns holds exactly one entry for every
\* non-empty cleaned form of a token of the stream; its key is that form
\* (distinct forms are distinct keys) and its info the number of tokens that
\* clean to it, so tokens that differ only in case or punctuation are
\* counted under one key.
C16_CountWords ==
    op = "count_words" =>
        LET spans == TokenSpans(input)
            forms == {FormAt(input, sp) : sp \in spans} \ {<<>>}
        IN  /\ PairsOf(root) =
                 {<<string_key(w),
                    Cardinality({sp \in spans : FormAt(input, sp) = w})>> : w \in forms}
            /\ size(root) = Cardinality(forms)
            /\ \A v, w \in forms : string_key(v) = string_key(w) => v = w

\* "a! A": two tokens that differ in case and punctuation, under one key
C16_Witness ==
    /\ op = "count_words"
    /\ Cardinality(TokenSpans(input)) = 2
    /\ PairsOf(root) = {<<string_key(<<97>>), 2>>}
    /\ \E sp \in TokenSpans(input) : SubSeq(input, sp[1], sp[2]) = <<65>>
    /\ \E sp \in TokenSpans(input) : SubSeq(input, sp[1], sp[2]) = <<97, 33>>

\* The stream without the tokens that clean to the empty string: the other
\* tokens in order, a space after each
RECURSIVE WithoutEmptyForms(_)
WithoutEmptyForms(is) ==
    LET e == extract(is)
    IN  IF ~e.ok THEN <<>>
        ELSE (IF CleanedForm(e.word) # <<>> THEN e.word \o <<32>> ELSE <<>>)
                 \o WithoutEmptyForms(e.is)

\* C17: the tree count_words returns never has the empty string as a key; a
\* token that cleans to the empty string adds no entry and changes no
\* count (the tree is the one the stream without those tokens gives), so a
\* stream with no token, or with none but such tokens, gives an empty tree.
C17_NoEmptyKey ==
    op = "count_words" =>
        /\ string_key(<<>>) \notin KeysOf(root)
        /\ root = count_words(WithoutEmptyForms(input))
        /\ (\A sp \in TokenSpans(input) : FormAt(input, sp) = <<>>) => empty(root)

\* "! a !": punctuation tokens around a counted one
C17_Witness ==
    /\ op = "count_words"
    /\ input = <<33, 32, 97, 10, 33>>
    /\ PairsOf(root) = {<<string_key(<<97>>), 1>>}

\* The keys of a vector of entries
KeysIn(v) == [i \in 1..Len(v) |-> v[i][1]]

\* C18: inserting the keys 3, 2, 1 in that order into an empty tree gives
\* the in-order sequence 1, 2, 3 with root key 2, and the tree is the one a
\* single right rotation at the old root 3 gives: the old root's left child
\* 2 is the new root, the old root is its right child and has taken over
\* what was the right subtree of 2, and the new key 1 is the left child.
C18_RightRotation ==
    (script = Rotations321 /\ pc = 3) =>
        /\ KeysIn(to_vector(root, <<>>)) = <<1, 2, 3>>
        /\ root.key = 2
        /\ prev.key = 3
        /\ root.key = prev.left.key
        /\ root.right.key = prev.key
        /\ root.right.left = prev.left.right
        /\ root.right.right = prev.right
        /\ root.left.key = 1
        /\ IsAVL(root)
        /\ HeightsCached(root)

C18_Witness ==
    /\ script = Rotations321
    /\ pc = 3
    /\ op = "insert"
    /\ arg_key = 1
    /\ TrueHeight(root) = 2

\* The tree with keys 10, 20, 30 that a double rotation leaves: the key
\* inserted last, 20, is the root, 10 and 30 are its children, and search
\* finds each of the three with its info.
DoubleRotated ==
    /\ KeysIn(to_vector(root, <<>>)) = <<10, 20, 30>>
    /\ root.key = 20
    /\ arg_key = 20
    /\ root.left.key = 10
    /\ root.right.key = 30
    /\ IsAVL(root)
    /\ HeightsCached(root)
    /\ \A k \in {10, 20, 30} : search(root, k, 0) = [found |-> TRUE, info |-> 1]

\* C19: inserting 30, 10, 20 into an empty tree (20 arrives as the right
\* child of the left child 10 of the root 30: the left-right case) gives
\* in-order 10, 20, 30 with root key 20, and inserting 10, 30, 20 (20
\* arrives as the left child of the right child 30 of the root 10: the
\* right-left case) gives the same; all three keys are found by search.
C19_DoubleRotation ==
    /\ (script = RotationsLR /\ pc = 3) =>
          /\ prev.key = 30 /\ prev.left.key = 10 /\ prev.right = nullptr
          /\ DoubleRotated
    /\ (script = RotationsRL /\ pc = 3) =>
          /\ prev.key = 10 /\ prev.right.key = 30 /\ prev.left = nullptr
          /\ DoubleRotated

C19_Witness ==
    /\ script = RotationsLR
    /\ pc = 3
    /\ op = "insert"
    /\ arg_key = 20
    /\ TrueHeight(root) = 2
    /\ TrueHeight(prev) = 2

\* The odd keys below n in ascending order, each with twice the key as info
OddEntries(n) == [i \in 1..(n \div 2) |-> <<2 * i - 1, (2 * i - 1) * 2>>]

\* C20: during a run that inserts the keys 0..n-1 in ascending order, key i
\* with info 2i, and then removes the even keys in ascending order, the BST
\* order, the AVL balance and the cached heights hold after every call;
\* after the last insert the tree holds the n keys, and after the last
\* remove exactly the odd keys in ascending order, each with the info it
\* was inserted with.
C20_Stress ==
    \A n \in 0..MaxLimit :
        script = Stress(n) =>
            /\ IsBST(root)
            /\ IsAVL(root)
            /\ HeightsCached(root)
            /\ pc = n => to_vector(root, <<>>) = [i \in 1..n |-> <<i - 1, (i - 1) * 2>>]
            /\ pc = Len(script) => to_vector(root, <<>>) = OddEntries(n)

C20_Witness ==
    /\ script = Stress(MaxLimit)
    /\ pc = Len(script)
    /\ op = "remove"
    /\ size(root) = MaxLimit \div 2
    /\ TrueHeight(root) = 4

\* ------------------------------------------------- Sequence and the splits
\* C21: insert_at(k, i, position) returns true exactly when
\* 0 <= position <= size(); then the new element is at index position, the
\* elements before it are as they were and those from position on have moved
\* up by one; when it returns false the sequence is as it was.
C21_InsertAt ==
    op = "insert_at" =>
        LET s == old.seq
            n == Len(s)
            p == args.position
        IN  /\ ret = (0 <= p /\ p <= n)
            /\ ret => /\ Len(seq) = n + 1
                      /\ seq[p + 1] = [key |-> args.key, info |-> args.info]
                      /\ \A j \in 1..p : seq[j] = s[j]
                      /\ \A j \in (p + 1)..n : seq[j + 1] = s[j]
            /\ ~ret => seq = s

\* An element has been inserted between two others.
C21_Witness ==
    /\ op = "insert_at"
    /\ ret
    /\ 0 < args.position
    /\ args.position < Len(old.seq)
    /\ seq[args.position + 1] # old.seq[args.position + 1]

\* The elements of t at the indices in J, in the order of t
Pick(t, J) == [i \in 1..Cardinality(J) |-> t[Ascending(J)[i]]]

\* What rounds of blocks leave of the lists s, s1, s2, said without moving
\* anything: the elements of s from index p on are numbered 1, 2, ...; the
\* j-th one lies in round (j - 1) \div (len1 + len2), and in a round below
\* count it goes to seq1 when it is among the first len1 of its round and to
\* seq2 otherwise; all the others stay where they are.
Rounds(s, p, len1, len2, count, s1, s2) ==
    LET t == SubSeq(s, p + 1, Len(s))
        L == len1 + len2
        moved == {j \in 1..Len(t) : L > 0 /\ (j - 1) \div L < count}
        to1 == {j \in moved : (j - 1) % L < len1}
    IN  [seq |-> SubSeq(s, 1, p) \o Pick(t, (1..Len(t)) \ moved),
         seq1 |-> s1 \o Pick(t, to1),
         seq2 |-> s2 \o Pick(t, moved \ to1)]

Now == [seq |-> seq, seq1 |-> seq1, seq2 |-> seq2]

\* C22: split_pos with valid arguments makes up to count rounds; each moves
\* up to len1 consecutive elements from index start_pos of seq to the end of
\* seq1, then up to len2 from the same index to the end of seq2.  What is
\* moved leaves seq, what lies before start_pos stays, and the rounds end
\* when nothing is left at index start_pos.
C22_SplitPos ==
    (/\ op = "split_pos"
     /\ 0 <= args.start_pos /\ args.start_pos <= Len(old.seq)
     /\ 0 <= args.len1 /\ 0 <= args.len2
     /\ 0 <= args.count /\ args.count <= Len(old.seq))
    => /\ thrown = "none"
       /\ Now = Rounds(old.seq, args.start_pos, args.len1, args.len2, args.count,
                       old.seq1, old.seq2)

\* Two rounds after an element that stays: the second round finds one
\* element for seq1 and none for seq2.
C22_Witness ==
    /\ op = "split_pos"
    /\ thrown = "none"
    /\ args.start_pos = 0 /\ args.len1 = 1 /\ args.len2 = 1 /\ args.count = 2
    /\ Len(seq1) = Len(old.seq1) + 2
    /\ Len(seq2) = Len(old.seq2) + 1
    /\ seq = <<>>

\* How often key k occurs in s
Occurrences(s, k) == Cardinality({j \in 1..Len(s) : s[j].key = k})

\* The index (from 0) of the occ-th occurrence of k in s
OccurrenceIndex(s, k, occ) ==
    CHOOSE p \in 0..(Len(s) - 1) :
        s[p + 1].key = k /\ Occurrences(SubSeq(s, 1, p), k) = occ - 1

\* C23: split_key starts at the index of the start_occ-th occurrence of
\* start_key in seq (at index 0 when start_occ is 0) and makes from there up
\* to count rounds of up to len1 elements to seq1 and up to len2 to seq2;
\* what it moves leaves seq, what lies before the start stays in its order.
C23_SplitKey ==
    (/\ op = "split_key"
     /\ 0 <= args.start_occ /\ args.start_occ <= Occurrences(old.seq, args.start_key)
     /\ 0 <= args.len1 /\ 0 <= args.len2
     /\ 0 <= args.count /\ args.count <= Len(old.seq))
    => /\ thrown = "none"
       /\ Now = Rounds(old.seq,
                       IF args.start_occ = 0 THEN 0
                       ELSE OccurrenceIndex(old.seq, args.start_key, args.start_occ),
                       args.len1, args.len2, args.count, old.seq1, old.seq2)

\* The split has started at the second occurrence of the key and has left
\* the first one in seq.
C23_Witness ==
    /\ op = "split_key"
    /\ thrown = "none"
    /\ args.start_occ = 2
    /\ Len(old.seq) = 3
    /\ old.seq[1].key = args.start_key
    /\ seq = SubSeq(old.seq, 1, OccurrenceIndex(old.seq, args.start_key, 2))
    /\ Len(seq1) > Len(old.seq1)

\* C24: split_key throws std::invalid_argument whenever start_occ is
\* positive and start_key occurs fewer than start_occ times in seq, the
\* empty seq included, and then seq, seq1 and seq2 are as they were.
C24_MissingOccurrence ==
    (/\ op = "split_key"
     /\ args.start_occ > 0
     /\ Occurrences(old.seq, args.start_key) < args.start_occ)
    => /\ thrown = "invalid_argument"
       /\ Now = old

\* The key is in seq, but not as often as asked for: the call has thrown.
C24_Witness ==
    /\ op = "split_key"
    /\ args.start_occ = 2
    /\ Occurrences(old.seq, args.start_key) = 1
    /\ 0 <= args.len1 /\ 0 <= args.len2
    /\ 0 <= args.count /\ args.count <= Len(old.seq)
    /\ thrown = "invalid_argument"

\* C25: split_pos and split_key throw std::invalid_argument when start_pos
\* (start_occ), len1, len2 or count is negative or count is above
\* seq.size(), split_pos also when start_pos is above seq.size(); nothing
\* has been moved when they throw.
C25_InvalidArgument ==
    /\ (/\ op \in {"split_pos", "split_key"}
        /\ \/ args.len1 < 0 \/ args.len2 < 0 \/ args.count < 0
           \/ args.count > Len(old.seq)
           \/ op = "split_pos" /\ (args.start_pos < 0 \/ args.start_pos > Len(old.seq))
           \/ op = "split_key" /\ args.start_occ < 0)
       => thrown = "invalid_argument"
    /\ (op \in {"split_pos", "split_key"} /\ thrown = "invalid_argument") => Now = old

\* A count above the size, with every other argument valid, has made
\* split_pos throw on a list with elements to move.
C25_Witness ==
    /\ op = "split_pos"
    /\ thrown = "invalid_argument"
    /\ Len(old.seq) > 0
    /\ args.count = Len(old.seq) + 1
    /\ args.start_pos = 0
    /\ args.len1 > 0 /\ args.len2 >= 0

\* ------------------------------------------------------------ the rings
\* A vector of pairs has no key twice
DistinctKeys(v) == \A i, j \in 1..Len(v) : v[i][1] = v[j][1] => i = j

\* The info key k has in v, 0 when v has no such key
InfoOf(v, k) ==
    IF \E j \in 1..Len(v) : v[j][1] = k
      THEN v[CHOOSE j \in 1..Len(v) : v[j][1] = k][2]
      ELSE 0

\* C26: for two rings that each hold no key twice, join(first, second) lists
\* the elements of first in ring order from first's begin, each with its own
\* info plus the info the key has in second (if it has one), and then the
\* elements of second whose key first does not hold, in second's ring order;
\* with one ring empty the result is a copy of the other.
C26_Join ==
    LET F == toVector(first)
        S == toVector(second)
    IN  (op = "join" /\ DistinctKeys(F) /\ DistinctKeys(S))
        => /\ toVector(result) =
                  [i \in 1..Len(F) |-> <<F[i][1], F[i][2] + InfoOf(S, F[i][1])>>]
                      \o Pick(S, {j \in 1..Len(S) : \A i \in 1..Len(F) : F[i][1] # S[j][1]})
           /\ F = <<>> => toVector(result) = S
           /\ S = <<>> => toVector(result) = F

\* Two rings of two elements with one key in common, the second one of first
\* and the first one of second: three elements, the middle one summed.
C26_Witness ==
    /\ op = "join"
    /\ Len(toVector(first)) = 2
    /\ Len(toVector(second)) = 2
    /\ toVector(first)[2][1] = toVector(second)[1][1]
    /\ Len(toVector(result)) = 3
    /\ toVector(result)[2][2] = toVector(first)[2][2] + toVector(second)[1][2]

\* C27: shuffle on two non-empty rings returns reps rounds, each the next
\* fcnt elements of first and then the next scnt elements of second; each
\* ring is read cyclically and goes on where its last round stopped, so the
\* result has reps * (fcnt + scnt) elements.  With one ring empty the other
\* one alone gives its rounds; with both empty, or both counts 0, the result
\* is empty.
C27_Shuffle ==
    op = "shuffle" =>
        LET F == toVector(first)
            S == toVector(second)
            a == args.fcnt
            b == args.scnt
            R == toVector(result)
        IN  /\ (F # <<>> /\ S # <<>>) =>
                  R = [q \in 1..(args.reps * (a + b)) |->
                          LET round == (q - 1) \div (a + b)
                              off == (q - 1) % (a + b)
                          IN  IF off < a
                                THEN F[((round * a + off) % Len(F)) + 1]
                                ELSE S[((round * b + off - a) % Len(S)) + 1]]
            /\ (F # <<>> /\ S = <<>>) =>
                  R = [q \in 1..(args.reps * a) |-> F[((q - 1) % Len(F)) + 1]]
            /\ (F = <<>> /\ S # <<>>) =>
                  R = [q \in 1..(args.reps * b) |-> S[((q - 1) % Len(S)) + 1]]
            /\ (F = <<>> /\ S = <<>>) => R = <<>>
            /\ (a = 0 /\ b = 0) => R = <<>>

\* Two rounds of one element of each ring: the second round has gone on to
\* the second element of both.
C27_Witness ==
    /\ op = "shuffle"
    /\ args = [fcnt |-> 1, scnt |-> 1, reps |-> 2]
    /\ Len(toVector(first)) = 2
    /\ Len(toVector(second)) = 2
    /\ toVector(first)[1] # toVector(first)[2]
    /\ toVector(result) = <<toVector(first)[1], toVector(second)[1],
                            toVector(first)[2], toVector(second)[2]>>

\* The pairs of the ring before the last call, and the place (from 1) in
\* them of the element the caller's iterator stood on
Before == toVector(old.ring)
PositionIndex == (args.steps % Len(Before)) + 1

\* The nodes of a ring
Nodes(r) == {p \in DOMAIN r.cells : r.cells[p] # Free}

\* C28: for any bi_ring and any iterator taken from it at its current
\* version (begin(), possibly moved), insert(position, key, info) puts the
\* new element right before the element of position in forward order,
\* leaves every other element, their order and the begin element as they
\* were, makes the ring one longer and returns an iterator to the new
\* element.
C28_Insert ==
    (op = "ring_insert" /\ it.version = old.ring.version) =>
        /\ ~crashed
        /\ thrown = "none"
        /\ Len(toVector(ring)) = Len(Before) + 1
        /\ returned.node \in Nodes(ring)
        /\ returned.version = ring.version
        /\ iterator_key(ring, returned) = args.key
        /\ iterator_info(ring, returned) = args.info
        /\ Before # <<>> =>
              /\ increment_iterator(ring, returned).node = it.node
              /\ toVector(ring) =
                    IF PositionIndex = 1 THEN Append(Before, <<args.key, args.info>>)
                    ELSE SubSeq(Before, 1, PositionIndex - 1) \o <<<<args.key, args.info>>>>
                           \o SubSeq(Before, PositionIndex, Len(Before))

\* An element has been inserted between the first and the second of two.
C28_Witness ==
    /\ op = "ring_insert"
    /\ ~crashed
    /\ Len(Before) = 2
    /\ PositionIndex = 2
    /\ toVector(ring) = <<Before[1], <<args.key, args.info>>, Before[2]>>
    /\ Before[1] # <<args.key, args.info>>

\* C29: erase(position) with an iterator of the current version on a
\* non-empty ring removes the element of position and nothing else, and
\* keeps the forward order of the others; when it was the begin element the
\* next one is begin now, and when it was the only one the ring is empty.
C29_Erase ==
    (op = "ring_erase" /\ it.version = old.ring.version /\ Before # <<>>) =>
        /\ thrown = "none"
        /\ ~crashed
        /\ toVector(ring) = SubSeq(Before, 1, PositionIndex - 1)
                               \o SubSeq(Before, PositionIndex + 1, Len(Before))
        /\ Len(Before) = 1 => ring_is_empty(ring)
        /\ ring.cells[it.node] = Free
        /\ returned = begin(ring)

\* The begin element of three has been erased: the second one is begin now,
\* the third one follows.
C29_Witness ==
    /\ op = "ring_erase"
    /\ Len(Before) = 3
    /\ PositionIndex = 1
    /\ Before[2] # Before[3]
    /\ toVector(ring) = <<Before[2], Before[3]>>

\* The node reached from node p of ring by k steps along next
RECURSIVE Forward(_, _)
Forward(p, k) == IF k = 0 THEN p ELSE Forward(ring.cells[p].next, k - 1)

\* The node reached from node p of ring by k steps along prev
RECURSIVE Backward(_, _)
Backward(p, k) == IF k = 0 THEN p ELSE Backward(ring.cells[p].prev, k - 1)

\* C30: after any sequence of push_front, push_back, pop_front, pop_back,
\* insert and erase the ring is a consistent cycle: n.next.prev = n and
\* n.prev.next = n for every node n; size steps forward from begin() visit
\* every element once and end at begin(), and the steps backward visit the
\* same elements in the reverse order.
C30_Cycle ==
    LET N == Nodes(ring)
        count == Cardinality(N)
    IN  /\ ring_is_empty(ring) <=> N = {}
        /\ ring.any # NullAddr => ring.any \in N
        /\ \A n \in N :
              /\ ring.cells[n].next \in N
              /\ ring.cells[n].prev \in N
              /\ ring.cells[ring.cells[n].next].prev = n
              /\ ring.cells[ring.cells[n].prev].next = n
        /\ N # {} =>
              /\ {Forward(ring.any, k) : k \in 0..(count - 1)} = N
              /\ Forward(ring.any, count) = ring.any
              /\ Backward(ring.any, count) = ring.any
              /\ \A k \in 1..count : Backward(ring.any, k) = Forward(ring.any, count - k)

\* A ring of three after an insert in its middle and an erase: it has been
\* pushed to, inserted into and erased from.
C30_Witness ==
    /\ op = "ring_erase"
    /\ thrown = "none"
    /\ Cardinality(Nodes(ring)) = 3
    /\ Cardinality(Nodes(old.ring)) = 4
    /\ ring.version >= 5
    /\ PositionIndex = 2

\* Two nodes hold the same key and info
SameEntry(a, b) == a.key = b.key /\ a.info = b.info

\* The difference of the heights of the subtrees of a node
Lean(n) == TrueHeight(n.left) - TrueHeight(n.right)

\* res is y after a right rotation: the left child x of y is on top with
\* its left subtree, y is its right child and holds the right subtree of x
\* (the inner grandchild) and its own right subtree
RightRotated(y, res) ==
    /\ res # nullptr
    /\ SameEntry(res, y.left)
    /\ res.left = y.left.left
    /\ res.right # nullptr
    /\ SameEntry(res.right, y)
    /\ res.right.left = y.left.right
    /\ res.right.right = y.right

\* res is x after a left rotation, the mirror image
LeftRotated(x, res) ==
    /\ res # nullptr
    /\ SameEntry(res, x.right)
    /\ res.right = x.right.right
    /\ res.left # nullptr
    /\ SameEntry(res.left, x)
    /\ res.left.right = x.right.left
    /\ res.left.left = x.left

\* res is n after a left rotation of its left child and a right rotation
\* of n: the inner grandchild g is on top, over the left child with the
\* left subtree of g and over n with the right subtree of g
LeftRightRotated(n, res) ==
    /\ n.left.right # nullptr
    /\ res # nullptr
    /\ SameEntry(res, n.left.right)
    /\ res.left # nullptr
    /\ SameEntry(res.left, n.left)
    /\ res.left.left = n.left.left
    /\ res.left.right = n.left.right.left
    /\ res.right # nullptr
    /\ SameEntry(res.right, n)
    /\ res.right.left = n.left.right.right
    /\ res.right.right = n.right

\* res is n after a right rotation of its right child and a left rotation
\* of n, the mirror image
RightLeftRotated(n, res) ==
    /\ n.right.left # nullptr
    /\ res # nullptr
    /\ SameEntry(res, n.right.left)
    /\ res.right # nullptr
    /\ SameEntry(res.right, n.right)
    /\ res.right.right = n.right.right
    /\ res.right.left = n.right.left.right
    /\ res.left # nullptr
    /\ SameEntry(res.left, n)
    /\ res.left.right = n.right.left.left
    /\ res.left.left = n.left

\* C31: rebalance(n) on a node whose two subtrees satisfy the BST, AVL and
\* cached-height invariants and differ in height by 2 at most picks its case
\* as specified: balance > 1 and left balance >= 0, a right rotation;
\* balance < -1 and right balance <= 0, a left rotation; balance > 1 and
\* left balance < 0, a left rotation of the left child and a right rotation
\* of n; balance < -1 and right balance > 0, the mirror image; otherwise n
\* comes back as it is, with its height recomputed.  What it returns
\* satisfies the AVL and cached-height invariants and has the in-order
\* sequence of n.
C31_Rebalance ==
    op = "rebalance" =>
        /\ (Lean(prev) > 1 /\ Lean(prev.left) >= 0) => RightRotated(prev, root)
        /\ (Lean(prev) < -1 /\ Lean(prev.right) <= 0) => LeftRotated(prev, root)
        /\ (Lean(prev) > 1 /\ Lean(prev.left) < 0) => LeftRightRotated(prev, root)
        /\ (Lean(prev) < -1 /\ Lean(prev.right) > 0) => RightLeftRotated(prev, root)
        /\ Lean(prev) \in {-1, 0, 1} => root = [prev EXCEPT !.height = TrueHeight(prev)]
        /\ IsAVL(root)
        /\ HeightsCached(root)
        /\ to_vector(root, <<>>) = to_vector(prev, <<>>)

\* rebalance has done the left-right double rotation on a node of six
\* whose cached height was not its height.
C31_Witness ==
    /\ op = "rebalance"
    /\ Lean(prev) = 2
    /\ Lean(prev.left) = -1
    /\ NodeCount(prev) = 6
    /\ prev.height # TrueHeight(prev)
    /\ root.key = prev.left.right.key
    /\ TrueHeight(root) = 3

\* The height update_height computes for a node over the subtrees l and r
HeightOver(l, r) == 1 + (IF TrueHeight(l) < TrueHeight(r) THEN TrueHeight(r) ELSE TrueHeight(l))

\* C32: one rotate_left or rotate_right keeps the in-order key sequence of
\* the subtree, moves one subtree, the inner grandchild, to a new parent,
\* and changes the cached height of the two nodes that swap levels at most:
\* the keys, infos, child links and cached heights of every other node are
\* as before.
C32_Rotation ==
    /\ op = "rotate_right" =>
          /\ RightRotated(prev, root)
          /\ to_vector(root, <<>>) = to_vector(prev, <<>>)
          /\ root.right.height = HeightOver(prev.left.right, prev.right)
          /\ root.height = HeightOver(prev.left.left, root.right)
    /\ op = "rotate_left" =>
          /\ LeftRotated(prev, root)
          /\ to_vector(root, <<>>) = to_vector(prev, <<>>)
          /\ root.left.height = HeightOver(prev.left, prev.right.left)
          /\ root.height = HeightOver(root.left, prev.right.right)

\* A right rotation has moved an inner grandchild of two nodes from the
\* left child to the old top, whose cached height was wrong before.
C32_Witness ==
    /\ op = "rotate_right"
    /\ NodeCount(prev.left.right) = 2
    /\ prev.right # nullptr
    /\ prev.height # TrueHeight(prev)
    /\ root.right.left = prev.left.right
    /\ root.right.key = prev.key

\* C33: remove(k) on a node with two children puts the key and info of its
\* in-order successor, the leftmost node of its right subtree, into the
\* node and removes the successor from the right subtree: one node
\* disappears, and the left subtree is untouched unless the node is then
\* rebalanced.  On a node with one child at most the node is replaced by
\* that child, or by nothing when it is a leaf.
C33_RemoveNode ==
    (op = "remove" /\ prev # nullptr /\ arg_key = prev.key) =>
        IF prev.left # nullptr /\ prev.right # nullptr
          THEN LET succ == to_vector(prev.right, <<>>)[1]
                   rest == Tail(to_vector(prev.right, <<>>))
               IN  /\ root # nullptr
                   /\ NodeCount(root) = NodeCount(prev) - 1
                   /\ to_vector(root, <<>>) = to_vector(prev.left, <<>>) \o <<succ>> \o rest
                   /\ root.key = succ[1] \/ root.right # nullptr
                   /\ LET R == IF root.key = succ[1] THEN root.right ELSE root.right.right
                          m == [key |-> succ[1], info |-> succ[2], left |-> prev.left,
                                right |-> R, height |-> prev.height]
                      IN  /\ to_vector(R, <<>>) = rest
                          /\ Settled(R)
                          /\ \/ root = [m EXCEPT !.height = TrueHeight(m)]
                             \/ Lean(m) = 2 /\ RightRotated(m, root)
                             \/ Lean(m) = 2 /\ LeftRightRotated(m, root)
                   /\ Settled(root)
          ELSE root = (IF prev.left # nullptr THEN prev.left ELSE prev.right)

\* The top of a subtree of six with two children has been removed; its
\* successor was not its right child, and no rotation followed at the top.
C33_Witness ==
    /\ op = "remove"
    /\ prev # nullptr
    /\ arg_key = prev.key
    /\ NodeCount(prev) = 6
    /\ prev.left # nullptr
    /\ prev.right # nullptr
    /\ prev.right.left # nullptr
    /\ root.key = to_vector(prev.right, <<>>)[1][1]
    /\ root.info # prev.info
    /\ root.left = prev.left

\* A tree with the info of the node of key k blanked: its shape, its keys,
\* its cached heights and the infos of the other nodes
RECURSIVE Blanked(_, _)
Blanked(n, k) ==
    IF n = nullptr THEN nullptr
    ELSE [key |-> n.key,
          info |-> IF n.key = k THEN DefaultInfo ELSE n.info,
          left |-> Blanked(n.left, k),
          right |-> Blanked(n.right, k),
          height |-> n.height]

\* The rebalance calls of the last insert or remove, as their arguments
RebalanceCalls == rebalance_arguments(op, prev, arg_key, arg_info)

\* rebalance returns n as it is, with the height update_height gives it
Unrotated(n) ==
    /\ balance_factor(n) \in {-1, 0, 1}
    /\ rebalance(n) = [n EXCEPT !.height = HeightOver(n.left, n.right)]

\* C34: insert(k, v) with k present changes the info of the node of k and
\* nothing else: the shape of the tree, every link, every cached height and
\* the key and info of every other node are as before, and no rotation is
\* made on the way back to the root.
C34_InsertExistingFrame ==
    (op = "insert" /\ arg_key \in KeysOf(prev)) =>
        /\ Blanked(root, arg_key) = Blanked(prev, arg_key)
        /\ InfosAt(root, arg_key) = {arg_info}
        /\ \A i \in 1..Len(RebalanceCalls) :
              /\ Unrotated(RebalanceCalls[i])
              /\ rebalance(RebalanceCalls[i]) = RebalanceCalls[i]

\* A key two levels below the top of a tree of six has been inserted again
\* with another info.
C34_Witness ==
    /\ op = "insert"
    /\ NodeCount(prev) = 6
    /\ arg_key \in KeysOf(prev)
    /\ InfosAt(prev, arg_key) # {arg_info}
    /\ Len(RebalanceCalls) = 2
    /\ root # prev

\* C35: whenever rebalance runs during an insert or a remove on a tree that
\* satisfied the invariants, the balance factor of its node is -2, -1, 0, 1
\* or 2, and whenever it rotates, the child it promotes (the left child for
\* rotate_right, the right child for rotate_left, and the inner grandchild
\* in a double rotation) is a node: balance_factor and the rotations never
\* read through nullptr.
C35_NoNullRead ==
    op \in {"insert", "remove"} =>
        \A i \in 1..Len(RebalanceCalls) :
            LET n == RebalanceCalls[i]
                balance == balance_factor(n)
            IN  /\ balance \in -2..2
                /\ balance > 1 => n.left # nullptr
                /\ balance < -1 => n.right # nullptr
                /\ (balance > 1 /\ balance_factor(n.left) < 0) => n.left.right # nullptr
                /\ (balance < -1 /\ balance_factor(n.right) > 0) => n.right.left # nullptr

\* A remove has made rebalance run on a node whose left subtree it had
\* emptied, and rebalance took the right-left case there.
C35_Witness ==
    /\ op = "remove"
    /\ Len(RebalanceCalls) >= 1
    /\ LET n == RebalanceCalls[Len(RebalanceCalls)]
       IN  /\ balance_factor(n) = -2
           /\ balance_factor(n.right) = 1
           /\ n.right.left # nullptr

\* The calls of rebalance that took one of the four rotation cases
Rotating == {i \in 1..Len(RebalanceCalls) : balance_factor(RebalanceCalls[i]) \notin {-1, 0, 1}}

\* C36: the insert of an absent key applies a rotation case, one single or
\* one double rotation, at one node of the insertion path at most; every
\* ancestor above that node comes back from rebalance as it was, with its
\* height recomputed.
C36_OneRotation ==
    (op = "insert" /\ arg_key \notin KeysOf(prev)) =>
        /\ Cardinality(Rotating) <= 1
        /\ \A i \in Rotating : \A j \in (i + 1)..Len(RebalanceCalls) :
              Unrotated(RebalanceCalls[j])

\* An insert has rotated twice at the lowest but one node of a path of
\* three, and the top came back unrotated.
C36_Witness ==
    /\ op = "insert"
    /\ arg_key \notin KeysOf(prev)
    /\ Len(RebalanceCalls) = 3
    /\ Rotating = {2}
    /\ balance_factor(RebalanceCalls[2]) = 2
    /\ balance_factor(RebalanceCalls[2].left) = -1
    /\ root.key = prev.key

\* The pairs of a search tree in ascending order of their keys
PairsAscending(n) ==
    LET ks == Ascending(KeysOf(n))
    IN  [i \in 1..Len(ks) |-> <<ks[i], CHOOSE v \in InfosAt(n, ks[i]) : TRUE>>]

\* C37: to_vector(vec) appends the pairs of the tree, in ascending order,
\* after what vec holds, and neither clears nor reorders that: on a vector
\* that is not empty, as in a second call on the same vector, the earlier
\* elements stay in front.
C37_ToVectorAppends ==
    op = "to_vector" => vec = old.vec \o PairsAscending(root)

\* to_vector has been called a second time on the vector of the first call,
\* on a tree of four.
C37_Witness ==
    /\ op = "to_vector"
    /\ NodeCount(root) = 4
    /\ Len(old.vec) = 4
    /\ Len(vec) = 8
    /\ SubSeq(vec, 5, 8) = old.vec

\* s begins with the elements of p
HasPrefix(s, p) == Len(p) <= Len(s) /\ SubSeq(s, 1, Len(p)) = p

\* What s holds after its first n elements
After(s, n) == SubSeq(s, n + 1, Len(s))

\* C38: a split_pos or split_key call that returns normally conserves the
\* elements: each element of the seq it was given is in exactly one of seq,
\* seq1 and seq2 afterwards, none lost and none twice, in its original order
\* within each of the three; what seq1 and seq2 held before is still there
\* as a prefix; seq1 has gained len1 * count elements at most and seq2
\* len2 * count.
C38_Conservation ==
    (op \in {"split_pos", "split_key"} /\ thrown = "none") =>
        /\ HasPrefix(seq1, old.seq1)
        /\ HasPrefix(seq2, old.seq2)
        /\ Len(seq1) - Len(old.seq1) <= args.len1 * args.count
        /\ Len(seq2) - Len(old.seq2) <= args.len2 * args.count
        /\ \E f \in [1..Len(old.seq) -> {"seq", "seq1", "seq2"}] :
              LET at(name) == Pick(old.seq, {j \in 1..Len(old.seq) : f[j] = name})
              IN  /\ seq = at("seq")
                  /\ After(seq1, Len(old.seq1)) = at("seq1")
                  /\ After(seq2, Len(old.seq2)) = at("seq2")

\* A split of two elements has put one after the element seq1 held before
\* and the other into seq2.
C38_Witness ==
    /\ op \in {"split_pos", "split_key"}
    /\ thrown = "none"
    /\ Len(old.seq) = 2
    /\ Len(old.seq1) = 1
    /\ seq = <<>>
    /\ Len(seq1) = 2
    /\ Len(seq2) = Len(old.seq2) + 1
    /\ seq1[2] # seq1[1]

PopCalls == {"ring_pop_front", "ring_pop_back"}
RingCalls == {"ring_push_front", "ring_push_back", "ring_insert", "ring_erase"} \cup PopCalls

\* C39: the version of a bi_ring grows by exactly one with every successful
\* push_front, push_back, pop_front, pop_back, insert and erase, and a pop
\* on an empty ring leaves it as it is; insert and erase called with an
\* iterator taken before such a modification (its version is not the
\* ring's) throw runtime_error and leave the elements of the ring, their
\* order, the begin element and the version unchanged.
C39_Version ==
    op \in RingCalls =>
        /\ (thrown = "none" /\ ~crashed /\ ~(op \in PopCalls /\ Before = <<>>))
              => /\ ring.version = old.ring.version + 1
                 /\ toVector(ring) # Before
        /\ (op \in PopCalls /\ Before = <<>>)
              => /\ thrown = "none"
                 /\ ring = old.ring
        /\ (op \in {"ring_insert", "ring_erase"} /\ args.since > 0)
              => /\ it.version # old.ring.version
                 /\ thrown = "runtime_error"
                 /\ ~crashed
                 /\ toVector(ring) = Before
                 /\ begin(ring).node = begin(old.ring).node
                 /\ ring.version = old.ring.version
                 /\ ring = old.ring

\* insert has been called on a ring of two with an iterator to its second
\* element that was taken one modification earlier, and has thrown.
C39_Witness ==
    /\ op = "ring_insert"
    /\ args.since = 1
    /\ args.steps = 1
    /\ Len(Before) = 2
    /\ it.node # ring.any
    /\ it.version = ring.version - 1
    /\ thrown = "runtime_error"

====
